---- MODULE Spec2Model ----
(***************************************************************************)
(* A model of mcp-council: the roster store (src/src/db.ts), the resilient *)
(* executor (utils/resilient.ts), the council vote (src/src/orchestrator.ts)*)
(* the candidate pool's practice round (candidate-pool.ts) and the         *)
(* council's recovery check (council.ts).                                  *)
(*                                                                         *)
(* Ids are naturals.  An agent (LLM) call is an external input: its answer *)
(* is drawn from a small set where the call is made.                       *)
(***************************************************************************)
EXTENDS Integers, Sequences, FiniteSets, TLC

----------------------------------------------------------------------------
(* Program constants *)

\* CouncilDB.MAX_RETRIES: attempts of a conditional commit
MAX_RETRIES == 10

\* council.ts COUNCIL_SIZE: the members of a full council
COUNCIL_SIZE == 8

(* Bounds of the model *)

\* candidates in the pool at the start
FirstPool == 4

\* store clients that run their calls concurrently
MaxClients == 3
\* store calls one client makes one after the other
MaxBurst == 10

----------------------------------------------------------------------------
(* Sequences used as the code uses arrays *)

Range(s) == {s[i] : i \in DOMAIN s}

\* Array.prototype.includes
Includes(s, x) == x \in Range(s)

\* ids.filter((i) => i !== x)
Without(s, x) == SelectSeq(s, LAMBDA y : y # x)

\* no entry occurs twice
NoDup(s) == \A i, j \in DOMAIN s : s[i] = s[j] => i = j

----------------------------------------------------------------------------
(* The store: Deno.Kv keys ["state"], ["members", id], ["candidates", id], *)
(* ["evicted", id]                                                         *)

VARIABLES
  kvState,       \* the CouncilState under ["state"]
  kvVersion,     \* the versionstamp of ["state"]: every set of the key renews it
  kvMembers,     \* id -> length of chatHistory, for the records under
                 \* ["members", id]
  kvCandidates,  \* id -> [fitness, history (length of chatHistory)], for the
                 \* records under ["candidates", id]
  kvEvicted      \* ids with a record under ["evicted", id]

kvVars == <<kvState, kvVersion, kvMembers, kvCandidates, kvEvicted>>

\* ensureCouncilState: the state a fresh database holds
InitialState ==
  [memberIds |-> <<>>, candidateIds |-> <<>>, targetPoolSize |-> 20,
   roundsSinceEviction |-> 0, lastRemovalCauses |-> <<>>]

\* saveMember's update of the state it read
SaveMemberState(state, id) ==
  IF Includes(state.memberIds, id) THEN state
  ELSE [state EXCEPT !.memberIds = Append(@, id)]

\* saveCandidate's update of the state it read
SaveCandidateState(state, id) ==
  IF Includes(state.candidateIds, id) THEN state
  ELSE [state EXCEPT !.candidateIds = Append(@, id)]

\* deleteMember's update of the state it read
DeleteMemberState(state, id) ==
  [state EXCEPT !.memberIds = Without(@, id)]

\* deleteCandidate's and evictCandidate's update of the state it read
DeleteCandidateState(state, id) ==
  [state EXCEPT !.candidateIds = Without(@, id)]

\* kv.set(["members", id], ...) or kv.set(["candidates", id], ...)
PutRecord(records, id, record) ==
  [i \in DOMAIN records \cup {id} |-> IF i = id THEN record ELSE records[i]]

\* kv.delete(["members", id]) or kv.delete(["candidates", id])
DropRecord(records, id) ==
  [i \in DOMAIN records \ {id} |-> records[i]]

\* a member or candidate a store client saves: nothing said yet
NewMember == 0
NewCandidate == [fitness |-> 0, history |-> 0]

----------------------------------------------------------------------------
(* Store clients: each client makes its calls one after the other, the     *)
(* clients run concurrently and interleave at every Kv operation.          *)

VARIABLES
  cCalls,    \* client -> the calls it makes, in order
  cIdx,      \* client -> index of the call in progress
  cPc,       \* client -> "read" | "commit" | "end" | "threw"
  cAttempt,  \* client -> the attempt counter of the call's retry loop
  cSnap,     \* client -> {state, versionstamp} its last read returned
  cRetried   \* client -> conditional commits of it that failed so far

cVars == <<cCalls, cIdx, cPc, cAttempt, cSnap, cRetried>>

Clients == 1..MaxClients

\* the id of client p's k-th call: no two calls share an id
CallId(p, k) == (p - 1) * (MaxBurst + 1) + k

CallsOf(op, p, n) == [k \in 1..n |-> [op |-> op, id |-> CallId(p, k)]]

\* n concurrent single calls, or one client with a burst beside a single call
Workloads(op) ==
  {[p \in Clients |-> IF p <= n THEN CallsOf(op, p, 1) ELSE <<>>] :
      n \in 1..MaxClients}
  \cup
  {[p \in Clients |-> IF p = 1 THEN CallsOf(op, p, b)
                      ELSE IF p = 2 THEN CallsOf(op, p, 1) ELSE <<>>] :
      b \in {MaxBurst - 1, MaxBurst}}

NoSnap == [state |-> InitialState, versionstamp |-> 0]

InitKvEmpty ==
  /\ kvState = InitialState
  /\ kvVersion = 1
  /\ kvMembers = <<>>
  /\ kvCandidates = <<>>
  /\ kvEvicted = {}

InitClients ==
  /\ \E op \in {"saveMember", "saveCandidate"} : cCalls \in Workloads(op)
  /\ cIdx = [p \in Clients |-> 1]
  /\ cPc = [p \in Clients |-> IF cCalls[p] = <<>> THEN "end" ELSE "read"]
  /\ cAttempt = [p \in Clients |-> 0]
  /\ cSnap = [p \in Clients |-> NoSnap]
  /\ cRetried = [p \in Clients |-> 0]

CurCall(p) == cCalls[p][cIdx[p]]

\* getCouncilStateWithVersion
StoreRead(p) ==
  /\ cPc[p] = "read"
  /\ cSnap' = [cSnap EXCEPT ![p] = [state |-> kvState, versionstamp |-> kvVersion]]
  /\ cPc' = [cPc EXCEPT ![p] = "commit"]
  /\ UNCHANGED <<kvVars, cCalls, cIdx, cAttempt, cRetried>>

\* .check({ key: ["state"], versionstamp }): the commit applies only if the
\* state was not set since it was read
CommitNoCheck(p) == TRUE
CheckVersion(p) == cSnap[p].versionstamp = kvVersion

\* the call returns: the client goes on to its next call
Returned(p) ==
  /\ cIdx' = [cIdx EXCEPT ![p] = @ + 1]
  /\ cPc' = [cPc EXCEPT ![p] = IF cIdx[p] < Len(cCalls[p]) THEN "read" ELSE "end"]
  /\ cAttempt' = [cAttempt EXCEPT ![p] = 0]

\* saveMember: .set(["members", id], member).set(["state"], state).commit()
CommitSaveMember(p) ==
  /\ cPc[p] = "commit"
  /\ CurCall(p).op = "saveMember"
  /\ CheckVersion(p)
  /\ kvMembers' = PutRecord(kvMembers, CurCall(p).id, NewMember)
  /\ kvState' = SaveMemberState(cSnap[p].state, CurCall(p).id)
  /\ kvVersion' = kvVersion + 1
  /\ Returned(p)
  /\ UNCHANGED <<kvCandidates, kvEvicted, cCalls, cSnap, cRetried>>

\* saveCandidate: .set(["candidates", id], candidate).set(["state"], state).commit()
CommitSaveCandidate(p) ==
  /\ cPc[p] = "commit"
  /\ CurCall(p).op = "saveCandidate"
  /\ CheckVersion(p)
  /\ kvCandidates' = PutRecord(kvCandidates, CurCall(p).id, NewCandidate)
  /\ kvState' = SaveCandidateState(cSnap[p].state, CurCall(p).id)
  /\ kvVersion' = kvVersion + 1
  /\ Returned(p)
  /\ UNCHANGED <<kvMembers, kvEvicted, cCalls, cSnap, cRetried>>

\* deleteMember: .delete(["members", id]).set(["state"], state).commit()
CommitDeleteMember(p) ==
  /\ cPc[p] = "commit"
  /\ CurCall(p).op = "deleteMember"
  /\ CheckVersion(p)
  /\ kvMembers' = DropRecord(kvMembers, CurCall(p).id)
  /\ kvState' = DeleteMemberState(cSnap[p].state, CurCall(p).id)
  /\ kvVersion' = kvVersion + 1
  /\ Returned(p)
  /\ UNCHANGED <<kvCandidates, kvEvicted, cCalls, cSnap, cRetried>>

\* deleteCandidate: .delete(["candidates", id]).set(["state"], state).commit()
CommitDeleteCandidate(p) ==
  /\ cPc[p] = "commit"
  /\ CurCall(p).op = "deleteCandidate"
  /\ CheckVersion(p)
  /\ kvCandidates' = DropRecord(kvCandidates, CurCall(p).id)
  /\ kvState' = DeleteCandidateState(cSnap[p].state, CurCall(p).id)
  /\ kvVersion' = kvVersion + 1
  /\ Returned(p)
  /\ UNCHANGED <<kvMembers, kvEvicted, cCalls, cSnap, cRetried>>

\* evictCandidate, of a candidate getCandidate found:
\* .delete(["candidates", id]).set(["evicted", id], candidate)
\* .set(["state"], state).commit()
CommitEvictCandidate(p) ==
  /\ cPc[p] = "commit"
  /\ CurCall(p).op = "evictCandidate"
  /\ CheckVersion(p)
  /\ kvCandidates' = DropRecord(kvCandidates, CurCall(p).id)
  /\ kvEvicted' = kvEvicted \cup {CurCall(p).id}
  /\ kvState' = DeleteCandidateState(cSnap[p].state, CurCall(p).id)
  /\ kvVersion' = kvVersion + 1
  /\ Returned(p)
  /\ UNCHANGED <<kvMembers, cCalls, cSnap, cRetried>>

\* the entity is set outside the conditional commit: a failed attempt of a
\* save leaves the record
CommitFailsRecordSet(p) ==
  /\ cPc[p] = "commit"
  /\ ~CheckVersion(p)
  /\ cRetried' = [cRetried EXCEPT ![p] = @ + 1]
  /\ IF cAttempt[p] + 1 < MAX_RETRIES
       THEN /\ cAttempt' = [cAttempt EXCEPT ![p] = @ + 1]
            /\ cPc' = [cPc EXCEPT ![p] = "read"]
       ELSE /\ cPc' = [cPc EXCEPT ![p] = "threw"]
            /\ UNCHANGED cAttempt
  /\ kvMembers' = IF CurCall(p).op = "saveMember"
                    THEN PutRecord(kvMembers, CurCall(p).id, NewMember)
                    ELSE kvMembers
  /\ kvCandidates' = IF CurCall(p).op = "saveCandidate"
                       THEN PutRecord(kvCandidates, CurCall(p).id, NewCandidate)
                       ELSE kvCandidates
  /\ UNCHANGED <<kvState, kvVersion, kvEvicted, cCalls, cIdx, cSnap>>

\* result.ok is false: retryDelay and the next attempt, or the throw after
\* the last one
CommitFails(p) ==
  /\ cPc[p] = "commit"
  /\ ~CheckVersion(p)
  /\ cRetried' = [cRetried EXCEPT ![p] = @ + 1]
  /\ IF cAttempt[p] + 1 < MAX_RETRIES
       THEN /\ cAttempt' = [cAttempt EXCEPT ![p] = @ + 1]
            /\ cPc' = [cPc EXCEPT ![p] = "read"]
       ELSE /\ cPc' = [cPc EXCEPT ![p] = "threw"]
            /\ UNCHANGED cAttempt
  /\ UNCHANGED <<kvVars, cCalls, cIdx, cSnap>>

\* the member and the candidate the store holds when the calls start
StoredMember == MaxClients * (MaxBurst + 1) + 1
StoredCandidate == MaxClients * (MaxBurst + 1) + 2

StoreOps == {"saveMember", "saveCandidate", "deleteMember", "deleteCandidate",
             "evictCandidate"}

\* the entity a single call of `op` by client p is about: a new one for a
\* save, a stored one otherwise
TargetOf(op, p) ==
  IF op \in {"saveMember", "saveCandidate"} THEN CallId(p, 1)
  ELSE IF op = "deleteMember" THEN StoredMember
  ELSE StoredCandidate

\* one client saves MaxBurst - 1 or MaxBurst entities one after the other
\* while another makes one call
OpWorkloads ==
  {[p \in Clients |-> IF p = 1 THEN CallsOf(burst, p, b)
                      ELSE IF p = 2 THEN <<[op |-> op, id |-> TargetOf(op, p)]>>
                      ELSE <<>>] :
      burst \in {"saveMember", "saveCandidate"},
      b \in {MaxBurst - 1, MaxBurst},
      op \in StoreOps}

\* a store that holds one member and one candidate
InitKvStored ==
  /\ kvState = [InitialState EXCEPT !.memberIds = <<StoredMember>>,
                                    !.candidateIds = <<StoredCandidate>>]
  /\ kvVersion = 1
  /\ kvMembers = PutRecord(<<>>, StoredMember, NewMember)
  /\ kvCandidates = PutRecord(<<>>, StoredCandidate, NewCandidate)
  /\ kvEvicted = {}

InitOpClients ==
  /\ cCalls \in OpWorkloads
  /\ cIdx = [p \in Clients |-> 1]
  /\ cPc = [p \in Clients |-> IF cCalls[p] = <<>> THEN "end" ELSE "read"]
  /\ cAttempt = [p \in Clients |-> 0]
  /\ cSnap = [p \in Clients |-> NoSnap]
  /\ cRetried = [p \in Clients |-> 0]

----------------------------------------------------------------------------
(* The agents (llm.ts): what the calls made to them may do *)

VARIABLES
  silent,  \* participants whose agent never answers a call
  broad    \* whether exhausted operations and odd answers are explored, or
           \* only agents that answer as asked

envVars == <<silent, broad>>

----------------------------------------------------------------------------
(* The resilient executor (utils/resilient.ts).  An operation is given by  *)
(* its script: the result of each of its attempts.                         *)

\* resilient.ts MAX_RETRIES: attempts withRetry gives an operation
RETRY_ATTEMPTS == 3

Scripts == [1..RETRY_ATTEMPTS -> {"ok", "err"}]

\* withRetry's loop from attempt `attempt` on: the attempt that returns, or
\* 0 when the last attempt failed too (RetryExhaustedError)
RECURSIVE RetryFrom(_, _)
RetryFrom(script, attempt) ==
  IF attempt > RETRY_ATTEMPTS THEN 0
  ELSE IF script[attempt] = "ok" THEN attempt
  ELSE RetryFrom(script, attempt + 1)

WithRetry(script) == RetryFrom(script, 1)

\* a batch that returns with the first operation to settle
ResilientParallelRace(scripts) ==
  LET first == IF scripts = <<>> THEN <<>> ELSE <<1>>
  IN [successes |-> SelectSeq(first, LAMBDA i : WithRetry(scripts[i]) > 0),
      failures  |-> SelectSeq(first, LAMBDA i : WithRetry(scripts[i]) = 0)]

\* resilientParallel over operations 1..n: the operations that returned and
\* those that exhausted their attempts, each in the order of the operations
ResilientParallel(scripts) ==
  LET n == Len(scripts)
      idx == [i \in 1..n |-> i]
  IN [successes |-> SelectSeq(idx, LAMBDA i : WithRetry(scripts[i]) > 0),
      failures  |-> SelectSeq(idx, LAMBDA i : WithRetry(scripts[i]) = 0)]

AlwaysOk == [a \in 1..RETRY_ATTEMPTS |-> "ok"]
NeverOk == [a \in 1..RETRY_ATTEMPTS |-> "err"]
LastOk == [a \in 1..RETRY_ATTEMPTS |-> IF a = RETRY_ATTEMPTS THEN "ok" ELSE "err"]

\* the scripts explored for a batch of n operations: none fails; the first
\* fails on every attempt; the first succeeds on its last attempt; all fail
\* on every attempt
BatchScripts(n) ==
  IF broad
    THEN {[i \in 1..n |-> AlwaysOk], [i \in 1..n |-> NeverOk],
          [i \in 1..n |-> IF i = 1 THEN NeverOk ELSE AlwaysOk],
          [i \in 1..n |-> IF i = 1 THEN LastOk ELSE AlwaysOk]}
    ELSE {[i \in 1..n |-> AlwaysOk]}

----------------------------------------------------------------------------
(* The council vote: Orchestrator.vote (orchestrator.ts)                   *)

\* a simple majority of the council
SimpleMajority == COUNCIL_SIZE \div 2 + 1

\* SUPERMAJORITY_THRESHOLD: nominations that evict a member
SUPERMAJORITY_THRESHOLD == 6

\* no id: a null proposalMemberId, nomineeId or replacement
NoId == 0
\* an agent's null answer (an abstention, no nomination)
Null == -1

VARIABLES
  vpc,         \* where the vote is
  vState,      \* `state`: the CouncilState the vote read and edits locally
  vBase,       \* the versionstamp vState was read at
  vMembers,    \* `members`: ids of the member records fetched
  vHistory,    \* member id -> length of its chatHistory in `members`
  vProposals,  \* `proposals`: the authors' ids, in the members' order
  vVotes,      \* `votes`: [voterId, proposalMemberId], with the number the
               \* voter's agent answered (ballot)
  vWinner,     \* `winner`: the winning proposal's author
  vTieBreak,   \* `tieBreak`: [tied, decision], with the number the
               \* orchestrator's agent answered (selection), or NoTie
  vNoms,       \* `nominations`: [nominatorId, nomineeId]
  vQueue,      \* the nominees still to process, in the Map's insertion order
  vCur,        \* the eviction in progress: [memberId, winner]
  vEvictions,  \* `evictions`: [memberId, nominations, evicted, replacement]
  vErrors,     \* `allErrors`: [round, who] of each exhausted operation
  vDropped,    \* exhausted operations that were not added to allErrors
  vThrown      \* the error vote() threw and the messages it aggregates

voteVars == <<vpc, vState, vBase, vMembers, vHistory, vProposals, vVotes, vWinner,
              vTieBreak, vNoms, vQueue, vCur, vEvictions, vErrors, vDropped,
              vThrown>>

NoTie == [tied |-> <<>>, decision |-> NoId, selection |-> Null]
NoThrow == [error |-> "", messages |-> <<>>]
Thrown(error) == [error |-> error, messages |-> <<>>]
NoCur == [memberId |-> NoId, winner |-> NoId, ballots |-> <<>>]

\* the locals of vote() when no call is in progress
InitVoteIdle ==
  /\ vState = InitialState
  /\ vBase = 0
  /\ vMembers = <<>>
  /\ vHistory = <<>>
  /\ vProposals = <<>> /\ vVotes = <<>> /\ vWinner = NoId /\ vTieBreak = NoTie
  /\ vNoms = <<>> /\ vQueue = <<>> /\ vCur = NoCur /\ vEvictions = <<>>
  /\ vErrors = <<>> /\ vDropped = <<>> /\ vThrown = NoThrow

\* the call is over: its locals are gone
VoteForget ==
  /\ vState' = InitialState
  /\ vBase' = 0
  /\ vMembers' = <<>>
  /\ vHistory' = <<>>
  /\ vProposals' = <<>> /\ vVotes' = <<>> /\ vWinner' = NoId /\ vTieBreak' = NoTie
  /\ vNoms' = <<>> /\ vQueue' = <<>> /\ vCur' = NoCur /\ vEvictions' = <<>>
  /\ vErrors' = <<>> /\ vDropped' = <<>> /\ vThrown' = NoThrow

\* a sequence's entries picked by a sequence of indexes
Pick(s, idxs) == [k \in 1..Len(idxs) |-> s[idxs[k]]]

\* the distinct entries of a sequence in the order of their first occurrence:
\* the key order of a Map filled from it
FirstSeen(s) ==
  Pick(s, SelectSeq([i \in 1..Len(s) |-> i],
                    LAMBDA i : \A j \in 1..(i - 1) : s[j] # s[i]))

\* a batch whose failures leave no entry
ErrorsOfNone(round, ids, failures) == <<>>

\* the failures of a batch as allErrors entries
ErrorsOf(round, ids, failures) ==
  [k \in 1..Len(failures) |-> [round |-> round, who |-> ids[failures[k]]]]

\* no agent call of the batch is left without an answer
Answered(ids) == Range(ids) \cap silent = {}

\* const state = getCouncilState()
VoteLoadState ==
  /\ vpc = "idle"
  /\ vState' = kvState
  /\ vBase' = kvVersion
  /\ vpc' = "members"
  /\ vProposals' = <<>> /\ vVotes' = <<>> /\ vWinner' = NoId /\ vTieBreak' = NoTie
  /\ vNoms' = <<>> /\ vQueue' = <<>> /\ vCur' = NoCur /\ vEvictions' = <<>>
  /\ vErrors' = <<>> /\ vDropped' = <<>> /\ vThrown' = NoThrow
  /\ UNCHANGED <<kvVars, silent, broad, vMembers, vHistory>>

\* getMembersByIds / getCandidatesByIds: the records found, in the ids' order
MembersByIds(ids) == SelectSeq(ids, LAMBDA i : i \in DOMAIN kvMembers)
CandidatesByIds(ids) == SelectSeq(ids, LAMBDA i : i \in DOMAIN kvCandidates)

\* const members = getMembersByIds(state.memberIds)
VoteLoadMembers ==
  /\ vpc = "members"
  /\ vMembers' = MembersByIds(vState.memberIds)
  /\ vHistory' = [id \in Range(MembersByIds(vState.memberIds)) |-> kvMembers[id]]
  /\ vpc' = "propose"
  /\ UNCHANGED <<kvVars, silent, broad, vState, vBase, vProposals, vVotes, vWinner,
                 vTieBreak, vNoms, vQueue, vCur, vEvictions, vErrors, vDropped,
                 vThrown>>

\* Round 1: collectProposals, and the throw when no proposal succeeded
VotePropose ==
  /\ vpc = "propose"
  /\ Answered(vMembers)
  /\ \E scripts \in BatchScripts(Len(vMembers)) :
       LET r == ResilientParallel(scripts)
           proposals == Pick(vMembers, r.successes)
       IN /\ vProposals' = proposals
          /\ vHistory' = [id \in DOMAIN vHistory |->
                           IF Includes(proposals, id) THEN vHistory[id] + 2
                           ELSE vHistory[id]]
          /\ vErrors' = vErrors \o ErrorsOf("proposal", vMembers, r.failures)
          /\ IF Len(proposals) = 0
               THEN /\ vpc' = "threw"
                    /\ vThrown' = [error |-> "All proposal requests failed",
                                   messages |-> vErrors']
               ELSE /\ vpc' = "select"
                    /\ UNCHANGED vThrown
  /\ UNCHANGED <<kvVars, silent, broad, vState, vBase, vMembers, vVotes, vWinner,
                 vTieBreak, vNoms, vQueue, vCur, vEvictions, vDropped>>

\* a batch in which the operations of `free` make no agent call and return
ScriptsWith(scripts, free) ==
  [i \in 1..Len(scripts) |-> IF i \in free THEN AlwaysOk ELSE scripts[i]]

\* the `vote` numbers explored for n voters on m proposals: everybody gives
\* the same number (null, 0, 1, 2, m + 1); voter 1 votes for proposal 2 and
\* the rest for 1; the first half votes for the last proposal and the rest
\* for the first; voter i votes for number i
SelectionAnswers(n, m) ==
  IF broad
    THEN {[i \in 1..n |-> k] : k \in {Null, 0, 1, 2, m + 1}}
         \cup {[i \in 1..n |-> IF i = 1 THEN 2 ELSE 1],
               [i \in 1..n |-> IF 2 * i <= n THEN m ELSE 1],
               [i \in 1..n |-> i]}
    ELSE {[i \in 1..n |-> k] : k \in {Null, 1}}

\* the fn of selectProposal's operation for one member: the id recorded as
\* proposalMemberId for the agent's answer
ValidVote(member, answer, proposals) ==
  IF answer = Null THEN NoId
  ELSE IF answer \in 1..Len(proposals) /\ proposals[answer] # member
         THEN proposals[answer]
         ELSE NoId

\* otherProposals.length === 0
NoOtherProposals(member, proposals) == Range(proposals) \subseteq {member}

\* tallyVotesAndFindWinner: the count of a proposal, and the proposals with
\* maxVotes in the proposals' order
VoteCount(votes, id) ==
  Cardinality({k \in 1..Len(votes) : votes[k].proposalMemberId = id})

\* a tally whose maximum is one vote whatever was cast
MaxVotesOne(votes, proposals) == IF votes = <<>> THEN 0 ELSE 1

MaxVotes(votes, proposals) ==
  LET counts == {VoteCount(votes, proposals[k]) : k \in 1..Len(proposals)}
  IN CHOOSE c \in counts : \A d \in counts : d <= c

\* a tally that finds no winner
WinnersNone(votes, proposals) == <<>>

Winners(votes, proposals) ==
  IF MaxVotes(votes, proposals) > 0
    THEN SelectSeq(proposals,
                   LAMBDA id : VoteCount(votes, id) = MaxVotes(votes, proposals))
    ELSE <<>>

\* Round 2: selectProposal up to the tally
VoteSelect ==
  /\ vpc = "select"
  /\ \A i \in 1..Len(vMembers) :
       vMembers[i] \in silent => NoOtherProposals(vMembers[i], vProposals)
  /\ \E scripts \in BatchScripts(Len(vMembers)),
        answers \in SelectionAnswers(Len(vMembers), Len(vProposals)) :
       LET free == {i \in 1..Len(vMembers) :
                      NoOtherProposals(vMembers[i], vProposals)}
           r == ResilientParallel(ScriptsWith(scripts, free))
           votes == [k \in 1..Len(r.successes) |->
                      LET i == r.successes[k]
                      IN [voterId |-> vMembers[i],
                          ballot |-> IF i \in free THEN Null ELSE answers[i],
                          proposalMemberId |->
                            IF i \in free THEN NoId
                            ELSE ValidVote(vMembers[i], answers[i], vProposals)]]
           winners == Winners(votes, vProposals)
       IN /\ vVotes' = votes
          /\ vErrors' = vErrors \o ErrorsOf("selection", vMembers, r.failures)
          /\ IF Len(winners) = 1
               THEN /\ vWinner' = winners[1]
                    /\ vpc' = "nominate"
                    /\ UNCHANGED vTieBreak
               ELSE /\ vTieBreak' = [tied |-> IF Len(winners) = 0
                                               THEN vProposals ELSE winners,
                                     decision |-> NoId, selection |-> Null]
                    /\ vpc' = "tiebreak"
                    /\ UNCHANGED vWinner
  /\ UNCHANGED <<kvVars, silent, broad, vState, vBase, vMembers, vHistory, vProposals, vNoms,
                 vQueue, vCur, vEvictions, vDropped, vThrown>>

\* breakTie: proposals[selection - 1] || proposals[0]
TieChoice(tied, selection) ==
  IF selection \in 1..Len(tied) THEN tied[selection] ELSE tied[1]

\* breakTie returns: a single proposal is returned as it is, otherwise the
\* orchestrator's agent answers with a selection
VoteBreakTie ==
  /\ vpc = "tiebreak"
  /\ \E selection \in {0, 1, Len(vTieBreak.tied), Len(vTieBreak.tied) + 1} :
       /\ Len(vTieBreak.tied) = 1 => selection = 1
       /\ vWinner' = TieChoice(vTieBreak.tied, selection)
       /\ vTieBreak' = [vTieBreak EXCEPT
                         !.decision = TieChoice(vTieBreak.tied, selection),
                         !.selection = IF Len(vTieBreak.tied) = 1 THEN Null
                                       ELSE selection]
  /\ vpc' = "nominate"
  /\ UNCHANGED <<kvVars, silent, broad, vState, vBase, vMembers, vHistory, vProposals, vVotes,
                 vNoms, vQueue, vCur, vEvictions, vErrors, vDropped, vThrown>>

\* breakTie's llm.json call rejects: nothing catches it on the way to vote()
VoteBreakTieFails ==
  /\ vpc = "tiebreak"
  /\ Len(vTieBreak.tied) > 1
  /\ vpc' = "threw"
  /\ vThrown' = Thrown("tie arbitration failed")
  /\ UNCHANGED <<kvVars, silent, broad, vState, vBase, vMembers, vHistory, vProposals, vVotes,
                 vWinner, vTieBreak, vNoms, vQueue, vCur, vEvictions, vErrors,
                 vDropped>>

\* The store calls as the vote, the practice round and the recovery check
\* make them: the attempt of the retry loop whose conditional commit passes,
\* its read and its commit taken together
DbSaveMember(id, history) ==
  /\ kvMembers' = PutRecord(kvMembers, id, history)
  /\ kvState' = SaveMemberState(kvState, id)
  /\ kvVersion' = kvVersion + 1
  /\ UNCHANGED <<kvCandidates, kvEvicted>>

DbSaveCandidate(id, record) ==
  /\ kvCandidates' = PutRecord(kvCandidates, id, record)
  /\ kvState' = SaveCandidateState(kvState, id)
  /\ kvVersion' = kvVersion + 1
  /\ UNCHANGED <<kvMembers, kvEvicted>>

DbDeleteMember(id) ==
  /\ kvMembers' = DropRecord(kvMembers, id)
  /\ kvState' = DeleteMemberState(kvState, id)
  /\ kvVersion' = kvVersion + 1
  /\ UNCHANGED <<kvCandidates, kvEvicted>>

DbDeleteCandidate(id) ==
  /\ kvCandidates' = DropRecord(kvCandidates, id)
  /\ kvState' = DeleteCandidateState(kvState, id)
  /\ kvVersion' = kvVersion + 1
  /\ UNCHANGED <<kvMembers, kvEvicted>>

\* saveCouncilState: kv.set(["state"], state)
DbSaveCouncilState(state) ==
  /\ kvState' = state
  /\ kvVersion' = kvVersion + 1
  /\ UNCHANGED <<kvMembers, kvCandidates, kvEvicted>>

\* removals after which the agents that answer as asked name nobody with a
\* supermajority any more
MaxEvictions == 1

\* the `nominee` numbers explored for n nominators: everybody gives the same
\* number (null, 0, 1, n, n + 1); the first SUPERMAJORITY_THRESHOLD name
\* member 1 and the rest nobody; all but the first SUPERMAJORITY_THRESHOLD - 1,
\* who name member 1, name member 2
NominationAnswers(n) ==
  IF broad
    THEN {[i \in 1..n |-> k] : k \in {Null, 0, 1, n, n + 1}}
         \cup {[i \in 1..n |-> IF i <= SUPERMAJORITY_THRESHOLD THEN 1 ELSE Null],
               [i \in 1..n |-> IF i < SUPERMAJORITY_THRESHOLD THEN 1 ELSE 2]}
    ELSE {[i \in 1..n |-> Null],
          [i \in 1..n |-> IF i < SUPERMAJORITY_THRESHOLD THEN 1 ELSE 2]}
         \cup (IF Len(kvState.lastRemovalCauses) < MaxEvictions
                 THEN {[i \in 1..n |-> 1]} ELSE {})

\* members[response.nominee - 1]?.id || null
NomineeId(answer, members) ==
  IF answer \in 1..Len(members) THEN members[answer] ELSE NoId

\* every nomination counted for every nominee
NominationCountAll(noms, id) == Len(noms)

\* noms.length for a nominee
NominationCount(noms, id) ==
  Cardinality({k \in 1..Len(noms) : noms[k].nomineeId = id})

\* Round 3: the nominations of processEvictions and the Map built from them
VoteNominate ==
  /\ vpc = "nominate"
  /\ Answered(vMembers)
  /\ \E scripts \in BatchScripts(Len(vMembers)),
        answers \in NominationAnswers(Len(vMembers)) :
       LET r == ResilientParallel(scripts)
           noms == [k \in 1..Len(r.successes) |->
                     [nominatorId |-> vMembers[r.successes[k]],
                      nomineeId |-> NomineeId(answers[r.successes[k]], vMembers)]]
           named == SelectSeq([k \in 1..Len(noms) |-> noms[k].nomineeId],
                              LAMBDA id : id # NoId)
       IN /\ vNoms' = noms
          /\ vQueue' = FirstSeen(named)
          /\ vErrors' = vErrors \o ErrorsOf("nomination", vMembers, r.failures)
  /\ vpc' = "evict"
  /\ UNCHANGED <<kvVars, silent, broad, vState, vBase, vMembers, vHistory, vProposals,
                 vVotes, vWinner, vTieBreak, vCur, vEvictions, vDropped, vThrown>>

\* the EvictionResult pushed on `results`
EvictionResult(id, evicted, replacement) ==
  [memberId |-> id, nominations |-> NominationCount(vNoms, id),
   evicted |-> evicted, replacement |-> replacement]

\* the loop over nominationCounts: a nominee below the supermajority
VoteSpare ==
  /\ vpc = "evict"
  /\ vQueue # <<>>
  /\ NominationCount(vNoms, Head(vQueue)) < SUPERMAJORITY_THRESHOLD
  /\ vEvictions' = Append(vEvictions, EvictionResult(Head(vQueue), FALSE, NoId))
  /\ vQueue' = Tail(vQueue)
  /\ UNCHANGED <<kvVars, silent, broad, vpc, vState, vBase, vMembers, vHistory,
                 vProposals, vVotes, vWinner, vTieBreak, vNoms, vCur, vErrors,
                 vDropped, vThrown>>

\* the loop over nominationCounts: a nominee with a supermajority
VoteEvict ==
  /\ vpc = "evict"
  /\ vQueue # <<>>
  /\ NominationCount(vNoms, Head(vQueue)) >= SUPERMAJORITY_THRESHOLD
  /\ vCur' = [memberId |-> Head(vQueue), winner |-> NoId, ballots |-> <<>>]
  /\ vQueue' = Tail(vQueue)
  /\ vpc' = "demote"
  /\ UNCHANGED <<kvVars, silent, broad, vState, vBase, vMembers, vHistory, vProposals,
                 vVotes, vWinner, vTieBreak, vNoms, vEvictions, vErrors,
                 vDropped, vThrown>>

\* demoteMember: getMember and saveCandidate(candidate)
VoteDemoteSave ==
  /\ vpc = "demote"
  /\ IF vCur.memberId \in DOMAIN kvMembers
       THEN /\ DbSaveCandidate(vCur.memberId,
                               [fitness |-> 0,
                                history |-> kvMembers[vCur.memberId] + 1])
            /\ vpc' = "demoteDelete"
       ELSE /\ vpc' = "cause"
            /\ UNCHANGED kvVars
  /\ UNCHANGED <<silent, broad, vState, vBase, vMembers, vHistory, vProposals, vVotes,
                 vWinner, vTieBreak, vNoms, vQueue, vCur, vEvictions, vErrors,
                 vDropped, vThrown>>

\* demoteMember: deleteMember(memberId) and the edit of `state`
VoteDemoteDelete ==
  /\ vpc = "demoteDelete"
  /\ DbDeleteMember(vCur.memberId)
  /\ vState' = [vState EXCEPT !.memberIds = Without(@, vCur.memberId),
                              !.candidateIds = Append(@, vCur.memberId)]
  /\ vpc' = "cause"
  /\ UNCHANGED <<silent, broad, vBase, vMembers, vHistory, vProposals, vVotes, vWinner,
                 vTieBreak, vNoms, vQueue, vCur, vEvictions, vErrors, vDropped,
                 vThrown>>

\* every cause kept
PushCauseAll(causes, cause) == <<cause>> \o causes

\* [cause, ...lastRemovalCauses.slice(0, 9)]: a cause is the id removed
PushCause(causes, cause) == <<cause>> \o SubSeq(causes, 1, IF Len(causes) < 9 THEN Len(causes) ELSE 9)

\* the removal cause recorded and summarizeRemovalCauses answered
VoteRecordCause ==
  /\ vpc = "cause"
  /\ vState' = [vState EXCEPT !.lastRemovalCauses = PushCause(@, vCur.memberId)]
  /\ vpc' = "promotion"
  /\ UNCHANGED <<kvVars, silent, broad, vBase, vMembers, vHistory, vProposals, vVotes,
                 vWinner, vTieBreak, vNoms, vQueue, vCur, vEvictions, vErrors,
                 vDropped, vThrown>>

\* summarizeRemovalCauses' llm.text call rejects: nothing catches it
VoteSummarizeCausesFails ==
  /\ vpc = "cause"
  /\ vState' = [vState EXCEPT !.lastRemovalCauses = PushCause(@, vCur.memberId)]
  /\ vpc' = "threw"
  /\ vThrown' = Thrown("removal cause summary failed")
  /\ UNCHANGED <<kvVars, silent, broad, vBase, vMembers, vHistory, vProposals, vVotes,
                 vWinner, vTieBreak, vNoms, vQueue, vCur, vEvictions, vErrors,
                 vDropped>>

\* the `vote` numbers explored for the n voters of a promotion vote on m
\* candidates: everybody gives the same number (0, 1, 2, m); the voters
\* alternate between 2 and 1
PromotionAnswers(n, m) ==
  IF broad
    THEN {[i \in 1..n |-> k] : k \in {0, 1, 2, m}}
         \cup {[i \in 1..n |-> (i % 2) + 1]}
    ELSE {[i \in 1..n |-> k] : k \in {1, m}}

\* getPromotionVote: candidates[response.vote - 1]?.id || candidates[0].id
PromotionChoice(list, answer) ==
  IF answer \in 1..Len(list) THEN list[answer] ELSE list[1]

\* the sum of the weights of the votes for a candidate
RECURSIVE WeightFor(_, _)
WeightFor(votes, id) ==
  IF votes = <<>> THEN 0
  ELSE (IF Head(votes).candidateId = id THEN Head(votes).weight ELSE 0)
       + WeightFor(Tail(votes), id)

\* candidate?.fitness || 0
FitnessOf(id) == IF id \in DOMAIN kvCandidates THEN kvCandidates[id].fitness ELSE 0

\* runPromotionVote's tally: the candidates with the highest weight in the
\* order the Map got them, then the first of the highest fitness among them
\* (the sort is stable); NoId when no vote was cast and sorted[0] is undefined
PromotionWinner(votes) ==
  LET keys == FirstSeen([k \in 1..Len(votes) |-> votes[k].candidateId])
      top == SelectSeq(keys, LAMBDA id :
               \A k \in 1..Len(keys) : WeightFor(votes, keys[k]) <= WeightFor(votes, id))
      best == SelectSeq(top, LAMBDA id :
               \A k \in 1..Len(top) : FitnessOf(top[k]) <= FitnessOf(id))
  IN IF top = <<>> THEN NoId
     ELSE IF Len(top) = 1 THEN top[1]
     ELSE best[1]

\* runPromotionVote up to the winner: null when `state` lists no candidate;
\* otherwise the members vote with weight 2 on the candidates and each
\* candidate with weight 1 on the others
VotePromotion ==
  /\ vpc = "promotion"
  /\ IF vState.candidateIds = <<>>
       THEN /\ vEvictions' = Append(vEvictions,
                               EvictionResult(vCur.memberId, TRUE, NoId))
            /\ vpc' = "evict"
            /\ UNCHANGED <<vCur, vDropped, vThrown>>
       ELSE
         LET members == MembersByIds(vState.memberIds)
             candidates == CandidatesByIds(vState.candidateIds)
             voters == members \o candidates
             list(i) == IF i <= Len(members) THEN candidates
                        ELSE Without(candidates, voters[i])
         IN /\ \A i \in 1..Len(voters) : voters[i] \in silent => list(i) = <<>>
            /\ \E scripts \in BatchScripts(Len(voters)),
                  answers \in PromotionAnswers(Len(voters), Len(candidates)) :
                 LET r == ResilientParallel(
                            [i \in 1..Len(voters) |->
                               IF list(i) = <<>> THEN NeverOk ELSE scripts[i]])
                     votes == [k \in 1..Len(r.successes) |->
                                LET i == r.successes[k]
                                IN [voterId |-> voters[i],
                                    candidateId |->
                                      PromotionChoice(list(i), answers[i]),
                                    weight |-> IF i <= Len(members) THEN 2 ELSE 1]]
                     winnerId == PromotionWinner(votes)
                 IN /\ vDropped' = vDropped
                                   \o ErrorsOf("promotion", voters, r.failures)
                    /\ IF winnerId = NoId
                         THEN /\ vpc' = "threw"
                              /\ vThrown' = Thrown("TypeError in runPromotionVote")
                              /\ UNCHANGED vCur
                         ELSE /\ vpc' = "promoteSave"
                              /\ vCur' = [vCur EXCEPT !.winner = winnerId,
                                                    !.ballots = votes]
                              /\ UNCHANGED vThrown
            /\ UNCHANGED vEvictions
  /\ UNCHANGED <<kvVars, silent, broad, vState, vBase, vMembers, vHistory, vProposals,
                 vVotes, vWinner, vTieBreak, vNoms, vQueue, vErrors>>

\* promoteCandidate: getCandidate and saveMember(member); the votes of the
\* sub-vote are not read again
VotePromoteSave ==
  /\ vpc = "promoteSave"
  /\ IF vCur.winner \in DOMAIN kvCandidates
       THEN /\ DbSaveMember(vCur.winner, kvCandidates[vCur.winner].history)
            /\ vpc' = "promoteDelete"
            /\ UNCHANGED vEvictions
       ELSE /\ vEvictions' = Append(vEvictions,
                               EvictionResult(vCur.memberId, TRUE, vCur.winner))
            /\ vpc' = "evict"
            /\ UNCHANGED kvVars
  /\ vCur' = [vCur EXCEPT !.ballots = <<>>]
  /\ UNCHANGED <<silent, broad, vState, vBase, vMembers, vHistory, vProposals, vVotes,
                 vWinner, vTieBreak, vNoms, vQueue, vErrors, vDropped,
                 vThrown>>

\* promoteCandidate: deleteCandidate(candidateId) and the edit of `state`;
\* runPromotionVote returns the winner as the replacement
VotePromoteDelete ==
  /\ vpc = "promoteDelete"
  /\ DbDeleteCandidate(vCur.winner)
  /\ vState' = [vState EXCEPT !.candidateIds = Without(@, vCur.winner),
                              !.memberIds = Append(@, vCur.winner)]
  /\ vEvictions' = Append(vEvictions,
                          EvictionResult(vCur.memberId, TRUE, vCur.winner))
  /\ vpc' = "evict"
  /\ UNCHANGED <<silent, broad, vBase, vMembers, vHistory, vProposals, vVotes, vWinner,
                 vTieBreak, vNoms, vQueue, vCur, vErrors, vDropped, vThrown>>

\* processEvictions returns: no nominee is left
VoteEvictionsDone ==
  /\ vpc = "evict"
  /\ vQueue = <<>>
  /\ vpc' = "context"
  /\ UNCHANGED <<kvVars, silent, broad, vState, vBase, vMembers, vHistory, vProposals,
                 vVotes, vWinner, vTieBreak, vNoms, vQueue, vCur, vEvictions,
                 vErrors, vDropped, vThrown>>

\* summarize.ts MEMBER_SUMMARIZE_THRESHOLD and RECENT_MESSAGES_TO_KEEP
MEMBER_SUMMARIZE_THRESHOLD == 6
RECENT_MESSAGES_TO_KEEP == 3

\* summarizeHistory's result length: one summary message and the recent ones
Summarized(length, threshold) ==
  IF length <= threshold THEN length ELSE 1 + RECENT_MESSAGES_TO_KEEP

\* the members whose history, with the round summary pushed, is summarized
ToSummarize == {id \in Range(vMembers) : vHistory[id] + 1 > MEMBER_SUMMARIZE_THRESHOLD}

\* updateMemberContexts: the round summary pushed on every member of
\* `members`, long histories summarized, and saveMembers(updatedMembers)
VoteUpdateContexts ==
  /\ vpc = "context"
  /\ ToSummarize \cap silent = {}
  /\ vHistory' = [id \in DOMAIN vHistory |->
                    Summarized(vHistory[id] + 1, MEMBER_SUMMARIZE_THRESHOLD)]
  /\ kvMembers' = [id \in DOMAIN kvMembers \cup Range(vMembers) |->
                     IF id \in Range(vMembers) THEN vHistory'[id] ELSE kvMembers[id]]
  /\ kvState' = [kvState EXCEPT !.memberIds =
                   @ \o SelectSeq(vMembers, LAMBDA id : ~Includes(kvState.memberIds, id))]
  /\ kvVersion' = kvVersion + Len(vMembers)
  /\ vpc' = "save"
  /\ UNCHANGED <<kvCandidates, kvEvicted, silent, broad, vState, vBase, vMembers,
                 vProposals, vVotes, vWinner, vTieBreak, vNoms, vQueue, vCur,
                 vEvictions, vErrors, vDropped, vThrown>>

\* a summarizeHistory call of updateMemberContexts rejects: Promise.all
\* rejects and nothing catches it
VoteUpdateContextsFails ==
  /\ vpc = "context"
  /\ ToSummarize # {}
  /\ vpc' = "threw"
  /\ vThrown' = Thrown("history summary failed")
  /\ UNCHANGED <<kvVars, silent, broad, vState, vBase, vMembers, vHistory, vProposals,
                 vVotes, vWinner, vTieBreak, vNoms, vQueue, vCur, vEvictions,
                 vErrors, vDropped>>

HadEviction == \E k \in 1..Len(vEvictions) : vEvictions[k].evicted

Min(a, b) == IF a < b THEN a ELSE b
Max(a, b) == IF a > b THEN a ELSE b

\* adjustPoolSize: Math.min(20, ...), Math.max(3, ...), and the eviction-free
\* rounds after which the target is lowered
MaxPoolSize == 20
MinPoolSize == 3
QuietRounds == 10

\* the target lowered one eviction-free round early
AdjustedStateEarly(state, hadEviction) ==
  IF hadEviction
    THEN [state EXCEPT !.roundsSinceEviction = 0,
                       !.targetPoolSize = Min(MaxPoolSize, @ + 1)]
  ELSE IF state.roundsSinceEviction + 1 >= QuietRounds - 1
    THEN [state EXCEPT !.roundsSinceEviction = 0,
                       !.targetPoolSize = Max(MinPoolSize, @ - 1)]
  ELSE [state EXCEPT !.roundsSinceEviction = @ + 1]

\* the target raised without its cap
AdjustedStateNoCap(state, hadEviction) ==
  IF hadEviction
    THEN [state EXCEPT !.roundsSinceEviction = 0, !.targetPoolSize = @ + 1]
  ELSE IF state.roundsSinceEviction + 1 >= QuietRounds
    THEN [state EXCEPT !.roundsSinceEviction = 0,
                       !.targetPoolSize = Max(MinPoolSize, @ - 1)]
  ELSE [state EXCEPT !.roundsSinceEviction = @ + 1]

\* the target lowered without its floor
AdjustedStateNoFloor(state, hadEviction) ==
  IF hadEviction
    THEN [state EXCEPT !.roundsSinceEviction = 0,
                       !.targetPoolSize = Min(MaxPoolSize, @ + 1)]
  ELSE IF state.roundsSinceEviction + 1 >= QuietRounds
    THEN [state EXCEPT !.roundsSinceEviction = 0, !.targetPoolSize = @ - 1]
  ELSE [state EXCEPT !.roundsSinceEviction = @ + 1]

\* roundsSinceEviction updated, then adjustPoolSize(state, hadEviction)
AdjustedState(state, hadEviction) ==
  LET rounds == IF hadEviction THEN 0 ELSE state.roundsSinceEviction + 1
  IN IF hadEviction
       THEN [state EXCEPT !.roundsSinceEviction = rounds,
                          !.targetPoolSize = Min(MaxPoolSize, @ + 1)]
     ELSE IF rounds >= QuietRounds
       THEN [state EXCEPT !.roundsSinceEviction = 0,
                          !.targetPoolSize = Max(MinPoolSize, @ - 1)]
     ELSE [state EXCEPT !.roundsSinceEviction = rounds]

\* the end of vote(): saveCouncilState(state) and the result returned
VoteSaveState ==
  /\ vpc = "save"
  /\ vState' = AdjustedState(vState, HadEviction)
  /\ DbSaveCouncilState(AdjustedState(vState, HadEviction))
  /\ vpc' = "done"
  /\ UNCHANGED <<silent, broad, vBase, vMembers, vHistory, vProposals, vVotes, vWinner,
                 vTieBreak, vNoms, vQueue, vCur, vEvictions, vErrors, vDropped,
                 vThrown>>

----------------------------------------------------------------------------
(* The candidate pool's practice round: CandidatePool.runPracticeRound    *)
(* (candidate-pool.ts).  Several calls of it can be in progress.           *)

\* practice rounds that can be in progress together
MaxRounds == 2

\* candidate-pool.ts NULLIFICATION_THRESHOLD is 0.75 = ShieldNum / ShieldDen
ShieldNum == 3
ShieldDen == 4

\* summarize.ts CANDIDATE_SUMMARIZE_THRESHOLD
CANDIDATE_SUMMARIZE_THRESHOLD == 10

Rounds == 1..MaxRounds

VARIABLES
  nextId,      \* the next id monotonicUlid() gives out
  ppc,         \* round -> where the call is
  pState,      \* round -> `state`: the CouncilState it read and edits locally
  pCands,      \* round -> `candidates`: ids of the records fetched
  pRec,        \* round -> id -> the record it holds in memory
  pProposals,  \* round -> `proposals`: the authors' ids
  pVotes,      \* round -> `votes`: [voterId, ballot, proposalMemberId]
  pQueue,      \* round -> the candidates with a majority still to evict
  pEvicted,    \* round -> `evicted`
  pNoms,       \* round -> `nominations`: the nomineeId of each
  pErrors      \* round -> `allErrors`

roundVars == <<ppc, pState, pCands, pRec, pProposals, pVotes, pQueue, pEvicted,
               pNoms, pErrors>>
poolVars == <<nextId, roundVars>>

\* the `vote` numbers explored for n voters on m proposals
PracticeBallots(n, m) ==
  IF broad
    THEN {[i \in 1..n |-> k] : k \in {Null, 0, 1, m}} \cup {[i \in 1..n |-> i]}
    ELSE {[i \in 1..n |-> k] : k \in {Null, 1}}

\* more than half
MajorityStrict(n) == n \div 2 + 1

\* Math.ceil(candidates.length / 2)
Majority(n) == (n + 1) \div 2

\* the `nominee` numbers explored for n nominators: everybody gives the same
\* number; the first Majority(n) name candidate 1 and the rest nobody; all
\* but the first Majority(n) - 1, who name candidate 1, name candidate 2
PracticeNominations(n) ==
  IF broad
    THEN {[i \in 1..n |-> k] : k \in {Null, 1, n, n + 1}}
         \cup {[i \in 1..n |-> IF i <= Majority(n) THEN 1 ELSE Null],
               [i \in 1..n |-> IF i < Majority(n) THEN 1 ELSE 2]}
    ELSE {[i \in 1..n |-> k] : k \in {Null, 1}}

\* the fn of collectVotes' operation: otherProposals[response.vote - 1]
PracticeVote(candidate, answer, proposals) ==
  LET otherProposals == Without(proposals, candidate)
  IN IF answer \in 1..Len(otherProposals) THEN otherProposals[answer] ELSE NoId

\* no round is too small
NeverTooFew(candidates) == Len(candidates) < 0

\* runPracticeRound's test before anything else: candidates.length < 2
TooFew(candidates) == Len(candidates) < 2

\* runPracticeRound: state and candidates read; fewer than 2 candidates end it
PoolLoad(q) ==
  /\ ppc[q] = "start"
  /\ LET candidates == CandidatesByIds(kvState.candidateIds)
     IN /\ pState' = [pState EXCEPT ![q] = kvState]
        /\ pCands' = [pCands EXCEPT ![q] = candidates]
        /\ pRec' = [pRec EXCEPT ![q] = [id \in Range(candidates) |-> kvCandidates[id]]]
        /\ ppc' = [ppc EXCEPT ![q] = IF TooFew(candidates) THEN "done" ELSE "propose"]
  /\ UNCHANGED <<kvVars, nextId, pProposals, pVotes, pQueue, pEvicted, pNoms, pErrors>>

\* collectProposals: every operation that returns has pushed two messages,
\* summarized a long history and saved its candidate
PoolPropose(q) ==
  /\ ppc[q] = "propose"
  /\ Answered(pCands[q])
  /\ \E scripts \in BatchScripts(Len(pCands[q])) :
       LET r == ResilientParallel(scripts)
           proposals == Pick(pCands[q], r.successes)
           rec == [id \in DOMAIN pRec[q] |->
                    IF Includes(proposals, id)
                      THEN [pRec[q][id] EXCEPT !.history =
                              Summarized(@ + 2, CANDIDATE_SUMMARIZE_THRESHOLD)]
                      ELSE pRec[q][id]]
       IN /\ pProposals' = [pProposals EXCEPT ![q] = proposals]
          /\ pErrors' = [pErrors EXCEPT ![q] =
                           @ \o ErrorsOf("proposal", pCands[q], r.failures)]
          /\ pRec' = [pRec EXCEPT ![q] = rec]
          /\ kvCandidates' = [id \in DOMAIN kvCandidates \cup Range(proposals) |->
                                IF Includes(proposals, id) THEN rec[id]
                                ELSE kvCandidates[id]]
          /\ kvState' = [kvState EXCEPT !.candidateIds =
                           @ \o SelectSeq(proposals, LAMBDA id :
                                            ~Includes(kvState.candidateIds, id))]
          /\ kvVersion' = kvVersion + Len(proposals)
  /\ ppc' = [ppc EXCEPT ![q] = "vote"]
  /\ UNCHANGED <<kvMembers, kvEvicted, nextId, pState, pCands, pVotes, pQueue,
                 pEvicted, pNoms>>

\* every vote cast counted for every candidate
PracticeCountAll(votes, id) == Len(votes)

\* voteCounts.get(id) || 0
PracticeCount(votes, id) ==
  Cardinality({k \in 1..Len(votes) : votes[k].proposalMemberId = id})

\* collectVotes, and the fitness of the candidates in memory raised by the
\* votes each received
PoolVote(q) ==
  /\ ppc[q] = "vote"
  /\ \A i \in 1..Len(pCands[q]) :
       pCands[q][i] \in silent => NoOtherProposals(pCands[q][i], pProposals[q])
  /\ \E scripts \in BatchScripts(Len(pCands[q])),
        answers \in PracticeBallots(Len(pCands[q]), Len(pProposals[q])) :
       LET free == {i \in 1..Len(pCands[q]) :
                      NoOtherProposals(pCands[q][i], pProposals[q])}
           r == ResilientParallel(ScriptsWith(scripts, free))
           votes == [k \in 1..Len(r.successes) |->
                      LET i == r.successes[k]
                      IN [voterId |-> pCands[q][i],
                          ballot |-> IF i \in free THEN Null ELSE answers[i],
                          proposalMemberId |->
                            IF i \in free THEN NoId
                            ELSE PracticeVote(pCands[q][i], answers[i],
                                              pProposals[q])]]
       IN /\ pVotes' = [pVotes EXCEPT ![q] = votes]
          /\ pErrors' = [pErrors EXCEPT ![q] =
                           @ \o ErrorsOf("vote", pCands[q], r.failures)]
          /\ pRec' = [pRec EXCEPT ![q] =
                        [id \in DOMAIN pRec[q] |->
                           [fitness |-> pRec[q][id].fitness
                                        + PracticeCount(votes, id),
                            history |-> pRec[q][id].history]]]
  /\ ppc' = [ppc EXCEPT ![q] = "fitness"]
  /\ UNCHANGED <<kvVars, nextId, pState, pCands, pProposals, pQueue, pEvicted, pNoms>>

\* saveCandidates(candidates): every candidate in memory saved
PoolSaveFitness(q) ==
  /\ ppc[q] = "fitness"
  /\ kvCandidates' = [id \in DOMAIN kvCandidates \cup Range(pCands[q]) |->
                        IF Includes(pCands[q], id) THEN pRec[q][id]
                        ELSE kvCandidates[id]]
  /\ kvState' = [kvState EXCEPT !.candidateIds =
                   @ \o SelectSeq(pCands[q], LAMBDA id :
                                    ~Includes(kvState.candidateIds, id))]
  /\ kvVersion' = kvVersion + Len(pCands[q])
  /\ ppc' = [ppc EXCEPT ![q] = "nominate"]
  /\ UNCHANGED <<kvMembers, kvEvicted, nextId, pState, pCands, pRec, pProposals,
                 pVotes, pQueue, pEvicted, pNoms, pErrors>>

\* nobody is shielded
ShieldedNone(votes) == {}

\* the candidates that got NULLIFICATION_THRESHOLD of the votes cast
Shielded(votes) ==
  LET totalVotes == Cardinality({k \in 1..Len(votes) :
                                   votes[k].proposalMemberId # NoId})
  IN {id \in {votes[k].proposalMemberId : k \in 1..Len(votes)} \ {NoId} :
        totalVotes > 0
        /\ ShieldDen * PracticeCount(votes, id) >= ShieldNum * totalVotes}

\* processEvictions: the nominations, and the unshielded nominees with a
\* majority in the order the Map got them
PoolNominate(q) ==
  /\ ppc[q] = "nominate"
  /\ Answered(pCands[q])
  /\ \E scripts \in BatchScripts(Len(pCands[q])),
        answers \in PracticeNominations(Len(pCands[q])) :
       LET r == ResilientParallel(scripts)
           nominations == [k \in 1..Len(r.successes) |->
                             NomineeId(answers[r.successes[k]], pCands[q])]
           named == SelectSeq(
                      nominations,
                      LAMBDA id : id # NoId /\ id \notin Shielded(pVotes[q]))
           count(id) == Cardinality({k \in 1..Len(named) : named[k] = id})
       IN /\ pNoms' = [pNoms EXCEPT ![q] = nominations]
          /\ pQueue' = [pQueue EXCEPT ![q] =
                          SelectSeq(FirstSeen(named), LAMBDA id :
                                      count(id) >= Majority(Len(pCands[q])))]
          /\ pErrors' = [pErrors EXCEPT ![q] =
                           @ \o ErrorsOf("nomination", pCands[q], r.failures)]
  /\ ppc' = [ppc EXCEPT ![q] = "evict"]
  /\ UNCHANGED <<kvVars, nextId, pState, pCands, pRec, pProposals, pVotes,
                 pEvicted>>

\* the eviction loop: the cause recorded, evictCandidate, and the id taken
\* from the candidateIds of `state`
PoolEvict(q) ==
  /\ ppc[q] = "evict"
  /\ pQueue[q] # <<>>
  /\ LET id == Head(pQueue[q])
     IN /\ pEvicted' = [pEvicted EXCEPT ![q] = Append(@, id)]
        /\ pState' = [pState EXCEPT
                        ![q].lastRemovalCauses = PushCause(@, id),
                        ![q].candidateIds = Without(@, id)]
        /\ IF id \in DOMAIN kvCandidates
             THEN /\ kvCandidates' = DropRecord(kvCandidates, id)
                  /\ kvEvicted' = kvEvicted \cup {id}
                  /\ kvState' = DeleteCandidateState(kvState, id)
                  /\ kvVersion' = kvVersion + 1
                  /\ UNCHANGED kvMembers
             ELSE UNCHANGED kvVars
  /\ pQueue' = [pQueue EXCEPT ![q] = Tail(@)]
  /\ UNCHANGED <<nextId, ppc, pCands, pRec, pProposals, pVotes, pNoms, pErrors>>

\* the loop is over; summarizeRemovalCauses answered if somebody was evicted
PoolEvictionsDone(q) ==
  /\ ppc[q] = "evict"
  /\ pQueue[q] = <<>>
  /\ ppc' = [ppc EXCEPT ![q] = "replenish"]
  /\ UNCHANGED <<kvVars, nextId, pState, pCands, pRec, pProposals, pVotes,
                 pQueue, pEvicted, pNoms, pErrors>>

\* summarizeRemovalCauses' llm.text call rejects: runPracticeRound rejects
PoolSummarizeFails(q) ==
  /\ ppc[q] = "evict"
  /\ pQueue[q] = <<>>
  /\ pEvicted[q] # <<>>
  /\ ppc' = [ppc EXCEPT ![q] = "threw"]
  /\ UNCHANGED <<kvVars, nextId, pState, pCands, pRec, pProposals, pVotes,
                 pQueue, pEvicted, pNoms, pErrors>>

\* a candidate as createCandidate makes it: two system messages
FreshCandidate == [fitness |-> 0, history |-> 2]

\* the loop goes round once more at the target
UpToTarget(state) == Len(state.candidateIds) <= state.targetPoolSize

\* replenishPool's loop test
BelowTarget(state) == Len(state.candidateIds) < state.targetPoolSize

\* replenishPool: one createCandidate(state) while the pool is below target
PoolCreate(q) ==
  /\ ppc[q] = "replenish"
  /\ BelowTarget(pState[q])
  /\ DbSaveCandidate(nextId, FreshCandidate)
  /\ pState' = [pState EXCEPT ![q].candidateIds = Append(@, nextId)]
  /\ nextId' = nextId + 1
  /\ UNCHANGED <<ppc, pCands, pRec, pProposals, pVotes, pQueue, pEvicted, pNoms,
                 pErrors>>

\* the pool is at its target: saveCouncilState(state)
PoolSaveState(q) ==
  /\ ppc[q] = "replenish"
  /\ ~BelowTarget(pState[q])
  /\ DbSaveCouncilState(pState[q])
  /\ ppc' = [ppc EXCEPT ![q] = "personas"]
  /\ UNCHANGED <<nextId, pState, pCands, pRec, pProposals, pVotes, pQueue,
                 pEvicted, pNoms, pErrors>>

\* updateSurvivorPersonas: the surviving candidates that refined their
\* persona are read and saved again; runPracticeRound returns
PoolUpdatePersonas(q) ==
  /\ ppc[q] = "personas"
  /\ \E evolve \in BOOLEAN :
       LET survivors == SelectSeq(pCands[q], LAMBDA id : ~Includes(pEvicted[q], id))
           refined == IF evolve THEN CandidatesByIds(survivors) ELSE <<>>
       IN /\ Range(refined) \cap silent = {}
          /\ kvState' = [kvState EXCEPT !.candidateIds =
                           @ \o SelectSeq(refined, LAMBDA id :
                                            ~Includes(kvState.candidateIds, id))]
          /\ kvVersion' = kvVersion + Len(refined)
  /\ ppc' = [ppc EXCEPT ![q] = "done"]
  /\ UNCHANGED <<kvMembers, kvCandidates, kvEvicted, nextId, pState, pCands,
                 pRec, pProposals, pVotes, pQueue, pEvicted, pNoms, pErrors>>

InitPoolIdle ==
  /\ nextId = COUNCIL_SIZE + FirstPool + 1
  /\ ppc = [q \in Rounds |-> "idle"]
  /\ pState = [q \in Rounds |-> InitialState]
  /\ pCands = [q \in Rounds |-> <<>>]
  /\ pRec = [q \in Rounds |-> <<>>]
  /\ pProposals = [q \in Rounds |-> <<>>]
  /\ pVotes = [q \in Rounds |-> <<>>]
  /\ pQueue = [q \in Rounds |-> <<>>]
  /\ pEvicted = [q \in Rounds |-> <<>>]
  /\ pNoms = [q \in Rounds |-> <<>>]
  /\ pErrors = [q \in Rounds |-> <<>>]

----------------------------------------------------------------------------
(* The vote tool's handler (server.ts) and the council's periodic recovery *)
(* check (council.ts)                                                      *)

\* no minimum
NoMinimum == COUNCIL_SIZE - COUNCIL_SIZE

\* council.ts MIN_COUNCIL_SIZE
MIN_COUNCIL_SIZE == 3
\* council.ts INITIAL_POOL_SIZE
INITIAL_POOL_SIZE == 20

\* votes made one after the other in a run of votes
MaxDrift == 10

\* vote requests made, recovery checks run
MaxRequests == 1
MaxChecks == 1

VARIABLES
  operationInProgress,  \* Council.operationInProgress
  requests,             \* vote requests handled or in progress
  launched,             \* practice rounds launched
  rpc,                  \* where the recovery check is
  rState,               \* `state` of the check
  rSelected,            \* initializeCouncil's `selected` candidates left
  checks                \* recovery checks started or skipped

serverVars == <<operationInProgress, requests, launched, rpc, rState,
                rSelected, checks>>

\* the handler up to orchestrator.vote: too small a council is refused with
\* an error result, and the finally block clears the flag; otherwise
\* recovery is paused and the vote starts
HandlerRequest ==
  /\ vpc = "off"
  /\ requests < MaxRequests
  /\ requests' = requests + 1
  /\ IF Len(kvState.memberIds) >= MIN_COUNCIL_SIZE
       THEN operationInProgress' = TRUE /\ vpc' = "idle"
       ELSE operationInProgress' = FALSE /\ UNCHANGED vpc
  /\ UNCHANGED <<kvVars, envVars, poolVars, vState, vBase, vMembers, vHistory,
                 vProposals, vVotes, vWinner, vTieBreak, vNoms, vQueue, vCur,
                 vEvictions, vErrors, vDropped, vThrown, launched, rpc, rState,
                 rSelected, checks>>

\* the vote returned: the practice round is started in the background and
\* the finally block clears the flag
HandlerReturn ==
  /\ vpc = "done"
  /\ launched < MaxRounds
  /\ launched' = launched + 1
  /\ ppc' = [ppc EXCEPT ![launched + 1] = "start"]
  /\ operationInProgress' = FALSE
  /\ vpc' = "off"
  /\ VoteForget
  /\ UNCHANGED <<kvVars, envVars, nextId, pState, pCands, pRec, pProposals,
                 pVotes, pQueue, pEvicted, pNoms, pErrors, requests, rpc, rState,
                 rSelected, checks>>

\* the vote threw: the catch block answers with the error and the finally
\* block clears the flag
HandlerCatch ==
  /\ vpc = "threw"
  /\ operationInProgress' = FALSE
  /\ vpc' = "off"
  /\ VoteForget
  /\ UNCHANGED <<kvVars, envVars, poolVars, requests, launched, rpc, rState,
                 rSelected, checks>>

\* the ids of the records under a prefix, as kv.list gives them: by key
RECURSIVE Sorted(_)
Sorted(ids) ==
  IF ids = {} THEN <<>>
  ELSE LET least == CHOOSE i \in ids : \A j \in ids : i <= j
       IN <<least>> \o Sorted(ids \ {least})

\* runRecoveryCheck while an operation is in progress: skipped
RecoverySkip ==
  /\ rpc = "idle"
  /\ checks < MaxChecks
  /\ operationInProgress
  /\ checks' = checks + 1
  /\ UNCHANGED <<kvVars, nextId, operationInProgress, requests, launched, rpc,
                 rState, rSelected>>

\* runRecoveryCheck: getCouncilState
RecoveryStart ==
  /\ rpc = "idle"
  /\ checks < MaxChecks
  /\ ~operationInProgress
  /\ checks' = checks + 1
  /\ rState' = kvState
  /\ rpc' = "members"
  /\ UNCHANGED <<kvVars, nextId, operationInProgress, requests, launched,
                 rSelected>>

\* state.memberIds = the ids of getAllMembers()
RecoveryListMembers ==
  /\ rpc = "members"
  /\ rState' = [rState EXCEPT !.memberIds = Sorted(DOMAIN kvMembers)]
  /\ rpc' = "candidates"
  /\ UNCHANGED <<kvVars, nextId, operationInProgress, requests, launched,
                 rSelected, checks>>

\* state.candidateIds = the ids of getAllCandidates(), and what the check
\* does next: a full council goes on to the pool; a council short of
\* members gets one candidate created when too few exist, and otherwise
\* initializeCouncil selects candidates to promote
RecoveryListCandidates ==
  /\ rpc = "candidates"
  /\ LET candidateIds == Sorted(DOMAIN kvCandidates)
         needed == COUNCIL_SIZE - Len(rState.memberIds)
     IN /\ rState' = [rState EXCEPT
                        !.candidateIds = candidateIds,
                        !.targetPoolSize = IF @ = 0 THEN INITIAL_POOL_SIZE ELSE @]
        /\ IF needed <= 0
             THEN rpc' = "replenish" /\ rSelected' = <<>>
           ELSE IF Len(candidateIds) < needed
             THEN rpc' = "create" /\ rSelected' = <<>>
           ELSE /\ rpc' = "initialize"
                /\ \E shift \in 0..(Len(candidateIds) - 1) :
                     rSelected' = [k \in 1..needed |->
                                     candidateIds[((shift + k - 1) % Len(candidateIds)) + 1]]
  /\ UNCHANGED <<kvVars, nextId, operationInProgress, requests, launched,
                 checks>>

\* initializeCouncil: the member's chatHistory is the council introduction
\* and candidate.chatHistory.slice(-5)
BootstrapHistory(history) == 1 + Min(5, history)

\* initializeCouncil: the next selected candidate is read and saved as a
\* member under a new id
RecoveryInitSave ==
  /\ rpc = "initialize"
  /\ rSelected # <<>>
  /\ IF Head(rSelected) \in DOMAIN kvCandidates
       THEN /\ DbSaveMember(nextId,
                            BootstrapHistory(kvCandidates[Head(rSelected)].history))
            /\ nextId' = nextId + 1
            /\ rpc' = "initializeDelete"
            /\ UNCHANGED rSelected
       ELSE /\ rSelected' = Tail(rSelected)
            /\ UNCHANGED <<kvVars, nextId, rpc>>
  /\ UNCHANGED <<operationInProgress, requests, launched, rState, checks>>

\* initializeCouncil: deleteCandidate and the edit of `state`
RecoveryInitDelete ==
  /\ rpc = "initializeDelete"
  /\ DbDeleteCandidate(Head(rSelected))
  /\ rState' = [rState EXCEPT !.memberIds = Append(@, nextId - 1),
                              !.candidateIds = Without(@, Head(rSelected))]
  /\ rSelected' = Tail(rSelected)
  /\ rpc' = "initialize"
  /\ UNCHANGED <<nextId, operationInProgress, requests, launched, checks>>

\* initializeCouncil returns
RecoveryInitDone ==
  /\ rpc = "initialize"
  /\ rSelected = <<>>
  /\ rpc' = "replenish"
  /\ UNCHANGED <<kvVars, nextId, operationInProgress, requests, launched,
                 rState, rSelected, checks>>

\* a check that creates nothing
RecoveryReplenishNever ==
  /\ rpc \in {"create", "replenish"}
  /\ rpc' = "save"
  /\ UNCHANGED <<kvVars, nextId, rState, operationInProgress, requests,
                 launched, rSelected, checks>>

\* createCandidate once: for a council short of members and of candidates,
\* or for a pool below its target
RecoveryReplenish ==
  /\ rpc \in {"create", "replenish"}
  /\ IF rpc = "create" \/ Len(rState.candidateIds) < rState.targetPoolSize
       THEN /\ DbSaveCandidate(nextId, FreshCandidate)
            /\ rState' = [rState EXCEPT !.candidateIds = Append(@, nextId)]
            /\ nextId' = nextId + 1
       ELSE UNCHANGED <<kvVars, nextId, rState>>
  /\ rpc' = "save"
  /\ UNCHANGED <<operationInProgress, requests, launched, rSelected, checks>>

\* recovery checks made one after the other in a run of checks
MaxRecover == 14

\* the timer's next check, no operation in progress: runRecoveryLoop calls
\* runRecoveryCheck again after every interval
RecoveryAgain ==
  /\ rpc = "idle"
  /\ checks < MaxRecover
  /\ ~operationInProgress
  /\ checks' = checks + 1
  /\ rState' = kvState
  /\ rpc' = "members"
  /\ UNCHANGED <<kvVars, nextId, operationInProgress, requests, launched,
                 rSelected>>

\* saveCouncilState(state): the check is over
RecoverySave ==
  /\ rpc = "save"
  /\ DbSaveCouncilState(rState)
  /\ rpc' = "idle"
  /\ rState' = InitialState
  /\ UNCHANGED <<nextId, operationInProgress, requests, launched, rSelected,
                 checks>>

InitServer ==
  /\ operationInProgress = FALSE
  /\ requests = 0
  /\ launched = 0
  /\ rpc = "idle"
  /\ rState = InitialState
  /\ rSelected = <<>>
  /\ checks = 0

----------------------------------------------------------------------------
(* The resilient executor step by step: one batch of resilientParallel,    *)
(* its operations' attempts interleaved as the event loop runs them        *)

\* operations in a batch
MaxOps == 3

VARIABLES
  bScripts,    \* operation -> its script
  bAttempts,   \* operation -> calls of fn made so far
  bStatus,     \* operation -> "run" | "ok" (withRetry returned) | "failed"
               \* (withRetry threw RetryExhaustedError)
  bLastError,  \* operation -> the attempt whose error withRetry caught last,
               \* 0 when it caught none
  bResult      \* what resilientParallel returned

batchVars == <<bScripts, bAttempts, bStatus, bLastError, bResult>>

\* resilientParallel has not returned
NoResult == [returned |-> FALSE, successes |-> <<>>, failures |-> <<>>]

\* withRetry gives up one attempt early
AfterAttemptShort(script, attempt) ==
  IF script[attempt] = "ok" THEN "ok"
  ELSE IF attempt < RETRY_ATTEMPTS - 1 THEN "run"
  ELSE "failed"

\* withRetry after its call number `attempt` of fn: it returns the value, or
\* waits and loops, or throws after the last attempt
AfterAttempt(script, attempt) ==
  IF script[attempt] = "ok" THEN "ok"
  ELSE IF attempt < RETRY_ATTEMPTS THEN "run"
  ELSE "failed"

\* one call of fn by the withRetry of operation i
BatchAttempt(i) ==
  /\ i \in DOMAIN bScripts
  /\ bStatus[i] = "run"
  /\ LET attempt == bAttempts[i] + 1
     IN /\ bAttempts' = [bAttempts EXCEPT ![i] = attempt]
        /\ bStatus' = [bStatus EXCEPT ![i] = AfterAttempt(bScripts[i], attempt)]
        /\ bLastError' = IF bScripts[i][attempt] = "ok" THEN bLastError
                         ELSE [bLastError EXCEPT ![i] = attempt]
  /\ UNCHANGED <<bScripts, bResult>>

\* only the fulfilled results are kept
SettledWithoutFailures(status, lastError) ==
  LET idx == [i \in 1..Len(status) |-> i]
  IN [returned |-> TRUE,
      successes |-> SelectSeq(idx, LAMBDA i : status[i] = "ok"),
      failures |-> <<>>]

\* the loop over the results of Promise.allSettled: the value of each
\* fulfilled operation (its index) and the RetryExhaustedError of each
\* rejected one, in the order of the operations
Settled(status, lastError) ==
  LET idx == [i \in 1..Len(status) |-> i]
      rejected == SelectSeq(idx, LAMBDA i : status[i] = "failed")
  IN [returned |-> TRUE,
      successes |-> SelectSeq(idx, LAMBDA i : status[i] = "ok"),
      failures |-> [k \in 1..Len(rejected) |->
                      [operation |-> rejected[k],
                       lastError |-> lastError[rejected[k]],
                       attempts |-> RETRY_ATTEMPTS]]]

\* Promise.allSettled resolves when every withRetry has settled, and
\* resilientParallel returns
BatchSettle ==
  /\ ~bResult.returned
  /\ \A i \in DOMAIN bScripts : bStatus[i] # "run"
  /\ bResult' = Settled(bStatus, bLastError)
  /\ UNCHANGED <<bScripts, bAttempts, bStatus, bLastError>>

\* no batch
InitBatchIdle ==
  /\ bScripts = <<>> /\ bAttempts = <<>> /\ bStatus = <<>> /\ bLastError = <<>>
  /\ bResult = NoResult

\* a batch of up to MaxOps operations, whatever each attempt of each does
InitBatchOf ==
  /\ \E n \in 0..MaxOps : bScripts \in [1..n -> Scripts]
  /\ bAttempts = [i \in DOMAIN bScripts |-> 0]
  /\ bStatus = [i \in DOMAIN bScripts |-> "run"]
  /\ bLastError = [i \in DOMAIN bScripts |-> 0]
  /\ bResult = NoResult

----------------------------------------------------------------------------
(* The periodic recovery loop: Council.startPeriodicRecovery,              *)
(* stopPeriodicRecovery and runRecoveryLoop (council.ts)                   *)

\* calls of runRecoveryLoop that startPeriodicRecovery makes
MaxLoops == 3

Loops == 1..MaxLoops

VARIABLES
  isRecoveryRunning,  \* Council.isRecoveryRunning
  currentSleepTimer,  \* Council.currentSleepTimer: the loop whose timer it is
  lAt,                \* loop -> where the call of runRecoveryLoop is
  lTurn               \* loop -> the parity of the checks it began

loopVars == <<isRecoveryRunning, currentSleepTimer, lAt, lTurn>>

\* startPeriodicRecovery while no loop is marked running: the flag is set and
\* runRecoveryLoop begins its first check
LoopStart(l) ==
  /\ ~isRecoveryRunning
  /\ lAt[l] = "none"
  /\ \A k \in Loops : k < l => lAt[k] # "none"
  /\ isRecoveryRunning' = TRUE
  /\ lAt' = [lAt EXCEPT ![l] = "check"]
  /\ lTurn' = [lTurn EXCEPT ![l] = 1 - @]
  /\ UNCHANGED currentSleepTimer

\* startPeriodicRecovery while a loop is marked running: returns at once
LoopStartAgain ==
  /\ isRecoveryRunning
  /\ UNCHANGED loopVars

\* stopPeriodicRecovery: the flag is cleared and the pending timer, if there
\* is one, is cleared too: the loop that awaits it never resumes
LoopStop ==
  /\ isRecoveryRunning' = FALSE
  /\ IF isRecoveryRunning /\ currentSleepTimer # Null
       THEN /\ lAt' = [lAt EXCEPT ![currentSleepTimer] = "cleared"]
            /\ currentSleepTimer' = Null
       ELSE UNCHANGED <<lAt, currentSleepTimer>>
  /\ UNCHANGED lTurn

\* runRecoveryCheck returns to the loop: the loop ends when the flag is off;
\* otherwise it sleeps for the rest of the interval behind a timer kept in
\* currentSleepTimer or, the check having taken the whole interval, tests
\* the flag again and begins the next check
LoopCheckReturns(l) ==
  /\ lAt[l] = "check"
  /\ IF ~isRecoveryRunning
       THEN /\ lAt' = [lAt EXCEPT ![l] = "ended"]
            /\ UNCHANGED <<currentSleepTimer, lTurn>>
       ELSE \/ /\ lAt' = [lAt EXCEPT ![l] = "sleep"]
               /\ currentSleepTimer' = l
               /\ UNCHANGED lTurn
            \/ /\ lTurn' = [lTurn EXCEPT ![l] = 1 - @]
               /\ UNCHANGED <<lAt, currentSleepTimer>>
  /\ UNCHANGED isRecoveryRunning

\* the loop's timer fires: currentSleepTimer = null, and the recursive call
\* begins the next check when the flag is on
LoopTimerFires(l) ==
  /\ lAt[l] = "sleep"
  /\ currentSleepTimer' = Null
  /\ IF isRecoveryRunning
       THEN /\ lAt' = [lAt EXCEPT ![l] = "check"]
            /\ lTurn' = [lTurn EXCEPT ![l] = 1 - @]
       ELSE /\ lAt' = [lAt EXCEPT ![l] = "ended"]
            /\ UNCHANGED lTurn
  /\ UNCHANGED isRecoveryRunning

\* no loop was started
InitLoopIdle ==
  /\ isRecoveryRunning = FALSE
  /\ currentSleepTimer = Null
  /\ lAt = [l \in Loops |-> "none"]
  /\ lTurn = [l \in Loops |-> 0]

----------------------------------------------------------------------------
(* Lost updates: what the roster writes of a caller undo *)

\* the callers that save the state: the practice rounds, the vote and the
\* recovery check
VoteWriter == MaxRounds + 1
RecoveryWriter == MaxRounds + 2
Writers == Rounds \cup {VoteWriter, RecoveryWriter}

VARIABLES
  dirty,  \* writer -> ids whose latest roster change since the writer read the
          \* state was committed by another caller
  lost,   \* ids whose committed change a saveCouncilState of another caller undid
  streak  \* the eviction-free votes completed in a row since the counter was
          \* 0 (votes, Null when the run did not start at 0) and the
          \* targetPoolSize at that moment (from)

ghostVars == <<dirty, lost, streak>>

\* the streak after a vote saved its state
StreakAfter(hadEviction, before, after) ==
  IF hadEviction THEN [from |-> after.targetPoolSize, votes |-> 0]
  ELSE IF streak.votes = Null
    THEN IF after.roundsSinceEviction = 0
           THEN [from |-> after.targetPoolSize, votes |-> 0]
           ELSE streak
  ELSE IF streak.votes = 10
    THEN [from |-> before.targetPoolSize, votes |-> 1]
  ELSE [streak EXCEPT !.votes = @ + 1]

InRoster(state, id) ==
  <<Includes(state.memberIds, id), Includes(state.candidateIds, id)>>

\* the ids two roster states place differently
RosterDiff(a, b) ==
  {id \in Range(a.memberIds) \cup Range(a.candidateIds)
          \cup Range(b.memberIds) \cup Range(b.candidateIds) :
     InRoster(a, id) # InRoster(b, id)}

\* a step of `writer`: `reads` when it reads the state it will later save,
\* `saves` when it is a saveCouncilState
Track(writer, reads, saves) ==
  /\ dirty' = [w \in Writers |->
                 IF w # writer THEN dirty[w] \cup RosterDiff(kvState, kvState')
                 ELSE IF reads THEN {}
                 ELSE dirty[w] \ RosterDiff(kvState, kvState')]
  /\ lost' = IF saves
               THEN lost \cup (dirty[writer] \cap RosterDiff(kvState, kvState'))
               ELSE lost
  /\ streak' = IF saves /\ writer = VoteWriter
                 THEN StreakAfter(HadEviction, kvState, kvState')
                 ELSE streak

InitGhost ==
  /\ dirty = [w \in Writers |-> {}]
  /\ lost = {}
  /\ streak = [from |-> kvState.targetPoolSize,
               votes |-> IF kvState.roundsSinceEviction = 0 THEN 0 ELSE Null]

----------------------------------------------------------------------------
(* Specifications *)

vars == <<kvVars, envVars, cVars, voteVars, poolVars, serverVars, ghostVars,
          batchVars, loopVars>>

\* what the steps of one part leave alone
StoreOnly == UNCHANGED <<envVars, voteVars, poolVars, serverVars, ghostVars,
                         batchVars, loopVars>>
VoteOnly == UNCHANGED <<cVars, poolVars, serverVars, batchVars, loopVars>>
PoolOnly == UNCHANGED <<envVars, cVars, voteVars, serverVars, batchVars, loopVars>>
RecoveryOnly == UNCHANGED <<envVars, cVars, voteVars, roundVars, batchVars, loopVars>>
HandlerOnly == UNCHANGED <<cVars, ghostVars, batchVars, loopVars>>
BatchOnly == UNCHANGED <<kvVars, envVars, cVars, voteVars, poolVars, serverVars,
                         ghostVars, loopVars>>

\* a running council: COUNCIL_SIZE members with a record each and a pool of
\* FirstPool candidates at its target size
\* the length of a member's chatHistory as summarizeHistory left it
StartHistory == 1 + RECENT_MESSAGES_TO_KEEP

InitCouncilWith(size, pool, rounds, target) ==
  /\ kvMembers = [id \in 1..size |-> StartHistory]
  /\ kvCandidates = [id \in (COUNCIL_SIZE + 1)..(COUNCIL_SIZE + pool) |->
                       [fitness |-> id - COUNCIL_SIZE - 1, history |-> 2]]
  /\ kvEvicted = {}
  /\ kvState = [InitialState EXCEPT
                  !.memberIds = [i \in 1..size |-> i],
                  !.candidateIds = [i \in 1..pool |-> COUNCIL_SIZE + i],
                  !.roundsSinceEviction = rounds,
                  !.targetPoolSize = target]
  /\ kvVersion = 1

\* a pool of FirstPool candidates
InitCouncilOf(size, rounds, target) == InitCouncilWith(size, FirstPool, rounds, target)

\* a full council
InitCouncilAt(rounds, target) == InitCouncilOf(COUNCIL_SIZE, rounds, target)

InitCouncil == InitCouncilAt(0, FirstPool)

InitNoClients ==
  /\ cCalls = [p \in Clients |-> <<>>]
  /\ cIdx = [p \in Clients |-> 1]
  /\ cPc = [p \in Clients |-> "end"]
  /\ cAttempt = [p \in Clients |-> 0]
  /\ cSnap = [p \in Clients |-> NoSnap]
  /\ cRetried = [p \in Clients |-> 0]


\* the store under concurrent saves
NextStore ==
  \E p \in Clients :
    \/ StoreRead(p) /\ StoreOnly
    \/ CommitSaveMember(p) /\ StoreOnly
    \/ CommitSaveCandidate(p) /\ StoreOnly
    \/ CommitFails(p) /\ StoreOnly

InitStore ==
  /\ InitKvEmpty /\ InitClients /\ InitVoteIdle /\ InitPoolIdle /\ InitServer
  /\ InitGhost /\ InitBatchIdle /\ InitLoopIdle
  /\ vpc = "off"
  /\ silent = {} /\ broad = FALSE

SpecStore == InitStore /\ [][NextStore]_vars

\* the store under concurrent saves, deletes and evictions
NextStoreOps ==
  \E p \in Clients :
    \/ StoreRead(p) /\ StoreOnly
    \/ CommitSaveMember(p) /\ StoreOnly
    \/ CommitSaveCandidate(p) /\ StoreOnly
    \/ CommitDeleteMember(p) /\ StoreOnly
    \/ CommitDeleteCandidate(p) /\ StoreOnly
    \/ CommitEvictCandidate(p) /\ StoreOnly
    \/ CommitFails(p) /\ StoreOnly

InitStoreOps ==
  /\ InitKvStored /\ InitOpClients /\ InitVoteIdle /\ InitPoolIdle /\ InitServer
  /\ InitGhost /\ InitBatchIdle /\ InitLoopIdle
  /\ vpc = "off"
  /\ silent = {} /\ broad = FALSE

SpecStoreOps == InitStoreOps /\ [][NextStoreOps]_vars

\* the steps of a vote
NextVote ==
  \/ VoteLoadState /\ Track(VoteWriter, TRUE, FALSE) /\ VoteOnly
  \/ VoteLoadMembers /\ Track(VoteWriter, FALSE, FALSE) /\ VoteOnly
  \/ VotePropose /\ Track(VoteWriter, FALSE, FALSE) /\ VoteOnly
  \/ VoteSelect /\ Track(VoteWriter, FALSE, FALSE) /\ VoteOnly
  \/ VoteBreakTie /\ Track(VoteWriter, FALSE, FALSE) /\ VoteOnly
  \/ VoteBreakTieFails /\ Track(VoteWriter, FALSE, FALSE) /\ VoteOnly
  \/ VoteNominate /\ Track(VoteWriter, FALSE, FALSE) /\ VoteOnly
  \/ VoteSpare /\ Track(VoteWriter, FALSE, FALSE) /\ VoteOnly
  \/ VoteEvict /\ Track(VoteWriter, FALSE, FALSE) /\ VoteOnly
  \/ VoteDemoteSave /\ Track(VoteWriter, FALSE, FALSE) /\ VoteOnly
  \/ VoteDemoteDelete /\ Track(VoteWriter, FALSE, FALSE) /\ VoteOnly
  \/ VoteRecordCause /\ Track(VoteWriter, FALSE, FALSE) /\ VoteOnly
  \/ VoteSummarizeCausesFails /\ Track(VoteWriter, FALSE, FALSE) /\ VoteOnly
  \/ VotePromotion /\ Track(VoteWriter, FALSE, FALSE) /\ VoteOnly
  \/ VotePromoteSave /\ Track(VoteWriter, FALSE, FALSE) /\ VoteOnly
  \/ VotePromoteDelete /\ Track(VoteWriter, FALSE, FALSE) /\ VoteOnly
  \/ VoteEvictionsDone /\ Track(VoteWriter, FALSE, FALSE) /\ VoteOnly
  \/ VoteUpdateContexts /\ Track(VoteWriter, FALSE, FALSE) /\ VoteOnly
  \/ VoteUpdateContextsFails /\ Track(VoteWriter, FALSE, FALSE) /\ VoteOnly
  \/ VoteSaveState /\ Track(VoteWriter, FALSE, TRUE) /\ VoteOnly

\* one call of vote() on a running council, nothing else in progress; the
\* agents' failures and odd answers are explored and at most one participant
\* never answers
InitVote ==
  /\ InitCouncil /\ InitNoClients /\ InitVoteIdle /\ InitPoolIdle /\ InitServer
  /\ InitGhost /\ InitBatchIdle /\ InitLoopIdle
  /\ vpc = "idle"
  /\ silent \in {{}, {1}, {COUNCIL_SIZE + 1}}
  /\ broad = TRUE

SpecVote == InitVote /\ [][NextVote]_vars

\* the steps of the practice rounds
NextPool ==
  \E q \in Rounds :
    \/ PoolLoad(q) /\ Track(q, TRUE, FALSE) /\ PoolOnly
    \/ PoolPropose(q) /\ Track(q, FALSE, FALSE) /\ PoolOnly
    \/ PoolVote(q) /\ Track(q, FALSE, FALSE) /\ PoolOnly
    \/ PoolSaveFitness(q) /\ Track(q, FALSE, FALSE) /\ PoolOnly
    \/ PoolNominate(q) /\ Track(q, FALSE, FALSE) /\ PoolOnly
    \/ PoolEvict(q) /\ Track(q, FALSE, FALSE) /\ PoolOnly
    \/ PoolEvictionsDone(q) /\ Track(q, FALSE, FALSE) /\ PoolOnly
    \/ PoolSummarizeFails(q) /\ Track(q, FALSE, FALSE) /\ PoolOnly
    \/ PoolCreate(q) /\ Track(q, FALSE, FALSE) /\ PoolOnly
    \/ PoolSaveState(q) /\ Track(q, FALSE, TRUE) /\ PoolOnly
    \/ PoolUpdatePersonas(q) /\ Track(q, FALSE, FALSE) /\ PoolOnly

\* the pools the rounds start on: the running council's, and the pools of
\* one candidate and of none that a council still being filled has
PoolStarts == {FirstPool, 1, 0}

\* calls of runPracticeRound on a running council: MaxRounds of them made
\* together with agents that answer as asked, or one with the agents'
\* failures and odd answers explored
InitPool ==
  /\ \E pool \in PoolStarts : InitCouncilWith(COUNCIL_SIZE, pool, 0, FirstPool)
  /\ InitNoClients /\ InitVoteIdle /\ InitServer /\ InitGhost /\ InitBatchIdle /\ InitLoopIdle
  /\ vpc = "off"
  /\ nextId = COUNCIL_SIZE + FirstPool + 1
  /\ broad \in BOOLEAN
  /\ ppc = [q \in Rounds |-> IF broad /\ q > 1 THEN "idle" ELSE "start"]
  /\ pState = [q \in Rounds |-> InitialState]
  /\ pCands = [q \in Rounds |-> <<>>]
  /\ pRec = [q \in Rounds |-> <<>>]
  /\ pProposals = [q \in Rounds |-> <<>>]
  /\ pVotes = [q \in Rounds |-> <<>>]
  /\ pQueue = [q \in Rounds |-> <<>>]
  /\ pEvicted = [q \in Rounds |-> <<>>]
  /\ pNoms = [q \in Rounds |-> <<>>]
  /\ pErrors = [q \in Rounds |-> <<>>]
  /\ silent = {}

SpecPool == InitPool /\ [][NextPool]_vars

\* the steps of the recovery check
NextRecovery ==
  \/ RecoverySkip /\ Track(RecoveryWriter, FALSE, FALSE) /\ RecoveryOnly
  \/ RecoveryStart /\ Track(RecoveryWriter, TRUE, FALSE) /\ RecoveryOnly
  \/ RecoveryListMembers /\ Track(RecoveryWriter, FALSE, FALSE) /\ RecoveryOnly
  \/ RecoveryListCandidates /\ Track(RecoveryWriter, FALSE, FALSE) /\ RecoveryOnly
  \/ RecoveryInitSave /\ Track(RecoveryWriter, FALSE, FALSE) /\ RecoveryOnly
  \/ RecoveryInitDelete /\ Track(RecoveryWriter, FALSE, FALSE) /\ RecoveryOnly
  \/ RecoveryInitDone /\ Track(RecoveryWriter, FALSE, FALSE) /\ RecoveryOnly
  \/ RecoveryReplenish /\ Track(RecoveryWriter, FALSE, FALSE) /\ RecoveryOnly
  \/ RecoverySave /\ Track(RecoveryWriter, FALSE, TRUE) /\ RecoveryOnly

\* the next call of vote() after one that returned, nothing else running
VoteAgain ==
  /\ vpc \in {"off", "done"}
  /\ requests < MaxDrift
  /\ requests' = requests + 1
  /\ vpc' = "idle"
  /\ VoteForget
  /\ UNCHANGED <<kvVars, envVars, cVars, poolVars, operationInProgress, launched,
                 rpc, rState, rSelected, checks, ghostVars, batchVars, loopVars>>

\* the pool sizes and counters a run of votes starts at
DriftStarts ==
  {[rounds |-> 0, target |-> FirstPool], [rounds |-> 0, target |-> MinPoolSize],
   [rounds |-> 5, target |-> MaxPoolSize - 1], [rounds |-> 5, target |-> MaxPoolSize]}

\* votes one after the other on a running council whose agents answer as
\* asked
NextDrift ==
  \/ VoteAgain
  \/ NextVote

InitDrift ==
  /\ \E start \in DriftStarts : InitCouncilAt(start.rounds, start.target)
  /\ InitNoClients /\ InitVoteIdle /\ InitPoolIdle /\ InitServer /\ InitGhost /\ InitBatchIdle /\ InitLoopIdle
  /\ vpc = "off"
  /\ silent = {}
  /\ broad = FALSE

SpecDrift == InitDrift /\ [][NextDrift]_vars

\* the councils a run of recovery checks starts on: members missing, and a
\* pool that is empty, too small to fill the council, or at its target
RecoverStarts ==
  [size : {0, MIN_COUNCIL_SIZE - 1, COUNCIL_SIZE - 1}, pool : {0, 1, FirstPool}]

\* recovery checks one after the other, no vote requested
NextRecover ==
  \/ RecoveryAgain /\ Track(RecoveryWriter, TRUE, FALSE) /\ RecoveryOnly
  \/ RecoveryListMembers /\ Track(RecoveryWriter, FALSE, FALSE) /\ RecoveryOnly
  \/ RecoveryListCandidates /\ Track(RecoveryWriter, FALSE, FALSE) /\ RecoveryOnly
  \/ RecoveryInitSave /\ Track(RecoveryWriter, FALSE, FALSE) /\ RecoveryOnly
  \/ RecoveryInitDelete /\ Track(RecoveryWriter, FALSE, FALSE) /\ RecoveryOnly
  \/ RecoveryInitDone /\ Track(RecoveryWriter, FALSE, FALSE) /\ RecoveryOnly
  \/ RecoveryReplenish /\ Track(RecoveryWriter, FALSE, FALSE) /\ RecoveryOnly
  \/ RecoverySave /\ Track(RecoveryWriter, FALSE, TRUE) /\ RecoveryOnly

InitRecover ==
  /\ \E start \in RecoverStarts :
       InitCouncilWith(start.size, start.pool, 0, FirstPool)
  /\ InitNoClients /\ InitVoteIdle /\ InitPoolIdle /\ InitServer /\ InitGhost /\ InitBatchIdle /\ InitLoopIdle
  /\ vpc = "off"
  /\ silent = {}
  /\ broad = FALSE

\* the timer keeps firing and every awaited call of a check returns
SpecRecover == InitRecover /\ [][NextRecover]_vars /\ WF_vars(NextRecover)

\* what the calls on the recovery loop leave alone
LoopOnly == UNCHANGED <<kvVars, envVars, cVars, voteVars, poolVars, serverVars,
                        ghostVars, batchVars>>

\* calls of startPeriodicRecovery and stopPeriodicRecovery at any time and
\* the steps of the loops they start
NextLoop ==
  \/ \E l \in Loops : LoopStart(l) /\ LoopOnly
  \/ LoopStartAgain /\ LoopOnly
  \/ LoopStop /\ LoopOnly
  \/ \E l \in Loops : LoopCheckReturns(l) /\ LoopOnly
  \/ \E l \in Loops : LoopTimerFires(l) /\ LoopOnly

InitLoop ==
  /\ InitKvEmpty /\ InitNoClients /\ InitVoteIdle /\ InitPoolIdle /\ InitServer
  /\ InitGhost /\ InitBatchIdle /\ InitLoopIdle
  /\ vpc = "off"
  /\ silent = {} /\ broad = FALSE

SpecLoop == InitLoop /\ [][NextLoop]_vars

\* the causes of n earlier removals, the newest first
OldCauses(n) == [k \in 1..n |-> 100 + n - k]

\* the removals a council has behind it: one short of the ten kept, and ten
CauseStarts == {9, 10}

\* a vote or a practice round
NextCauses == NextVote \/ NextPool

\* one call of vote() or one of runPracticeRound, nothing else in progress,
\* on a running council with earlier removals recorded; the agents'
\* failures and odd answers are explored
InitCauses ==
  /\ \E n \in CauseStarts :
       /\ kvState = [InitialState EXCEPT
                       !.memberIds = [i \in 1..COUNCIL_SIZE |-> i],
                       !.candidateIds = [i \in 1..FirstPool |-> COUNCIL_SIZE + i],
                       !.targetPoolSize = FirstPool,
                       !.lastRemovalCauses = OldCauses(n)]
  /\ kvMembers = [id \in 1..COUNCIL_SIZE |-> StartHistory]
  /\ kvCandidates = [id \in (COUNCIL_SIZE + 1)..(COUNCIL_SIZE + FirstPool) |->
                       [fitness |-> id - COUNCIL_SIZE - 1, history |-> 2]]
  /\ kvEvicted = {}
  /\ kvVersion = 1
  /\ InitNoClients /\ InitVoteIdle /\ InitServer /\ InitGhost
  /\ InitBatchIdle /\ InitLoopIdle
  /\ silent = {}
  /\ broad = TRUE
  /\ nextId = COUNCIL_SIZE + FirstPool + 1
  /\ \E caller \in {"vote", "round"} :
       /\ vpc = IF caller = "vote" THEN "idle" ELSE "off"
       /\ ppc = [q \in Rounds |-> IF caller = "round" /\ q = 1 THEN "start"
                                  ELSE "idle"]
  /\ pState = [q \in Rounds |-> InitialState]
  /\ pCands = [q \in Rounds |-> <<>>]
  /\ pRec = [q \in Rounds |-> <<>>]
  /\ pProposals = [q \in Rounds |-> <<>>]
  /\ pVotes = [q \in Rounds |-> <<>>]
  /\ pQueue = [q \in Rounds |-> <<>>]
  /\ pEvicted = [q \in Rounds |-> <<>>]
  /\ pNoms = [q \in Rounds |-> <<>>]
  /\ pErrors = [q \in Rounds |-> <<>>]

SpecCauses == InitCauses /\ [][NextCauses]_vars

\* the steps of one batch
NextBatch ==
  \/ \E i \in 1..MaxOps : BatchAttempt(i) /\ BatchOnly
  \/ BatchSettle /\ BatchOnly

\* resilientParallel called once, nothing else running
InitBatch ==
  /\ InitKvEmpty /\ InitNoClients /\ InitVoteIdle /\ InitPoolIdle /\ InitServer
  /\ InitGhost
  /\ InitBatchOf /\ InitLoopIdle
  /\ vpc = "off"
  /\ silent = {} /\ broad = FALSE

SpecBatch == InitBatch /\ [][NextBatch]_vars

\* the steps of the vote tool's handler
NextHandler ==
  \/ HandlerRequest /\ HandlerOnly
  \/ HandlerReturn /\ HandlerOnly
  \/ HandlerCatch /\ HandlerOnly

\* the server: vote requests, the practice round each starts in the
\* background, and the periodic recovery check
Next == NextHandler \/ NextVote \/ NextPool \/ NextRecovery

\* the councils the server is started at: a full council with its pool at
\* its target, one with a target at its floor about to be lowered, and a
\* council left with fewer members than a vote needs
SystemStarts ==
  {[size |-> COUNCIL_SIZE, rounds |-> 0, target |-> FirstPool],
   [size |-> COUNCIL_SIZE, rounds |-> QuietRounds - 1, target |-> MinPoolSize],
   [size |-> MIN_COUNCIL_SIZE - 1, rounds |-> 0, target |-> FirstPool]}

Init ==
  /\ \E start \in SystemStarts :
       InitCouncilOf(start.size, start.rounds, start.target)
  /\ InitNoClients /\ InitVoteIdle /\ InitPoolIdle /\ InitServer
  /\ InitGhost /\ InitBatchIdle /\ InitLoopIdle
  /\ vpc = "off"
  /\ silent = {}
  /\ broad = FALSE

Spec == Init /\ [][Next]_vars

----------------------------------------------------------------------------
(* Claims *)

Calls == {pk \in Clients \X (1..MaxBurst) : pk[2] <= Len(cCalls[pk[1]])}

\* a call that returned
CallOk(pk) == cIdx[pk[1]] > pk[2]

\* every client is through: its calls returned, or one of them threw
StoreQuiet == \A p \in Clients : cPc[p] \in {"end", "threw"}

\* the id-list the calls' operation maintains
IdList ==
  IF \E p \in Clients : cCalls[p] # <<>> /\ cCalls[p][1].op = "saveMember"
    THEN kvState.memberIds ELSE kvState.candidateIds

\* C2 as stated: for any number of concurrent saves of distinct ids, once
\* they are through every call has returned and the id-list holds exactly
\* the saved ids, each once.
C2_AllSavesSucceed ==
  StoreQuiet =>
    /\ \A p \in Clients : cPc[p] = "end"
    /\ NoDup(IdList)
    /\ Range(IdList) = {cCalls[pk[1]][pk[2]].id : pk \in Calls}

\* C2 amended: at every moment the id-list holds exactly the ids of the
\* saves that returned, each once (none lost, none duplicated), and their
\* records exist; when at most MAX_RETRIES saves run, every one of them
\* returns. (With more, a save can lose the race MAX_RETRIES times and throw.)
C2_SavesExact ==
  /\ NoDup(IdList)
  /\ Range(IdList) = {cCalls[pk[1]][pk[2]].id : pk \in {c \in Calls : CallOk(c)}}
  /\ DOMAIN kvMembers \cup DOMAIN kvCandidates = Range(IdList)
  /\ Cardinality(Calls) <= MAX_RETRIES => \A p \in Clients : cPc[p] # "threw"

\* MAX_RETRIES saves are through, one of them after losing the race
\* MAX_RETRIES - 1 times
C2_Witness ==
  /\ StoreQuiet
  /\ Cardinality(Calls) = MAX_RETRIES
  /\ \A p \in Clients : cPc[p] = "end"
  /\ \E p \in Clients : cRetried[p] = MAX_RETRIES - 1
  /\ Len(IdList) = MAX_RETRIES

VoteReturned == vpc = "done"
VoteThrew == vpc = "threw"

\* C5: in a vote that returned, every eviction entry with evicted = true
\* carries a replacement id, the replacement is a member in the roster the
\* vote saved, the evicted member was demoted (it is a candidate and no
\* member there, unless it is the replacement itself), and memberIds has as
\* many entries as the vote found members.
C5_EvictionBackfilled ==
  VoteReturned =>
    \A k \in 1..Len(vEvictions) :
      vEvictions[k].evicted =>
        /\ vEvictions[k].replacement # NoId
        /\ Includes(vState.memberIds, vEvictions[k].replacement)
        /\ \/ vEvictions[k].replacement = vEvictions[k].memberId
           \/ /\ ~Includes(vState.memberIds, vEvictions[k].memberId)
              /\ Includes(vState.candidateIds, vEvictions[k].memberId)
        /\ Len(vState.memberIds) = Len(vMembers)

\* C6: vote() throws only when no proposal succeeded.
C6_ThrowsOnlyWithoutProposals == VoteThrew => vProposals = <<>>

\* C7: in a vote that returned, no operation that exhausted its retries is
\* missing from the errors list.
C7_NoFailureDropped == VoteReturned => vDropped = <<>>

\* C8: a vote without a successful proposal throws one error that aggregates
\* a failure message of every member, and has by then recorded no vote, no
\* nomination and no eviction and written nothing to the store; a vote with
\* a proposal does not throw that error and goes on to the selection.
C8_ZeroProposalsAbort ==
  /\ (vpc \notin {"idle", "members", "propose"} /\ vProposals = <<>>) =>
       /\ VoteThrew
       /\ vThrown.error = "All proposal requests failed"
       /\ Len(vThrown.messages) = Len(vMembers)
       /\ \A i \in 1..Len(vMembers) :
            vThrown.messages[i] = [round |-> "proposal", who |-> vMembers[i]]
       /\ vVotes = <<>> /\ vNoms = <<>> /\ vEvictions = <<>>
       /\ kvVersion = vBase /\ kvState = vState
  /\ vProposals # <<>> => vThrown.error # "All proposal requests failed"

\* every proposal failed and the vote threw
C8_Witness == VoteThrew /\ vProposals = <<>> /\ Len(vThrown.messages) = COUNCIL_SIZE

\* C9: a vote that has not finished can take a step.
C9_VoteNeverHangs == VoteReturned \/ VoteThrew \/ ENABLED NextVote


\* a practice round between reading the state and returning
InFlight(q) == ppc[q] \notin {"idle", "start", "done", "threw"}

\* no vote, practice round or recovery check is in progress
NothingInProgress ==
  /\ vpc = "off"
  /\ rpc = "idle"
  /\ \A q \in Rounds : ~InFlight(q) /\ ppc[q] # "start"

\* C1: no saveCouncilState of a vote, a practice round or a recovery check
\* undoes a roster change that another caller committed after the writer
\* read the state.
C1_NoLostUpdate == lost = {}

\* C3: when the votes, practice rounds and recovery checks made so far are
\* over, no id is in both memberIds and candidateIds of the saved state.
C3_RosterDisjoint ==
  NothingInProgress =>
    Range(kvState.memberIds) \cap Range(kvState.candidateIds) = {}

\* C4: two practice rounds are never in progress together.
C4_RoundsSerialized ==
  \A q1, q2 \in Rounds : q1 # q2 => ~(InFlight(q1) /\ InFlight(q2))

\* the number a voter answered is null, out of range, or the number of the
\* voter's own proposal in the list it was shown
NoValidTarget(vote, proposals) ==
  \/ vote.ballot \notin 1..Len(proposals)
  \/ proposals[vote.ballot] = vote.voterId

\* C10: in the council vote and in the practice rounds no recorded vote names
\* the voter itself, and a ballot that is null, out of range or the number of
\* the voter's own proposal is recorded as an abstention.
C10_SelfAndInvalidAbstain ==
  /\ \A k \in 1..Len(vVotes) :
       /\ vVotes[k].proposalMemberId # vVotes[k].voterId
       /\ NoValidTarget(vVotes[k], vProposals) => vVotes[k].proposalMemberId = NoId
  /\ \A q \in Rounds : \A k \in 1..Len(pVotes[q]) :
       /\ pVotes[q][k].proposalMemberId # pVotes[q][k].voterId
       /\ NoValidTarget(pVotes[q][k], pProposals[q]) =>
            pVotes[q][k].proposalMemberId = NoId

\* selectProposal has returned: the votes are tallied and the winner is known
Tallied ==
  vpc \in {"nominate", "evict", "demote", "demoteDelete", "cause", "promotion",
           "promoteSave", "promoteDelete", "context", "save", "done"}

\* the proposals no other proposal has more valid votes than
TopProposals ==
  {id \in Range(vProposals) :
     \A o \in Range(vProposals) : VoteCount(vVotes, o) <= VoteCount(vVotes, id)}

NoValidVote == \A k \in 1..Len(vVotes) : vVotes[k].proposalMemberId = NoId

\* C11: when the proposals with the most valid votes are not exactly one,
\* the tieBreak record is there, is decided, and its tiedProposals are
\* exactly those proposals, each once (the whole proposal list when no valid
\* vote was cast); two proposals with 4 of 8 votes each give 2 tied proposals.
C11_TieSetExact ==
  Tallied =>
    /\ Cardinality(TopProposals) # 1 =>
         /\ vTieBreak # NoTie
         /\ vTieBreak.decision # NoId
         /\ NoDup(vTieBreak.tied)
         /\ Range(vTieBreak.tied) = TopProposals
         /\ NoValidVote => vTieBreak.tied = vProposals
    /\ \A a, b \in Range(vProposals) :
         (a # b /\ Len(vVotes) = 8 /\ VoteCount(vVotes, a) = 4
                /\ VoteCount(vVotes, b) = 4) => Len(vTieBreak.tied) = 2

\* a vote returned after a 4-4 split between two of its 8 proposals
C11_Witness ==
  /\ VoteReturned
  /\ Len(vProposals) = 8
  /\ Len(vTieBreak.tied) = 2
  /\ \A k \in 1..2 : VoteCount(vVotes, vTieBreak.tied[k]) = 4

\* C12: the vote never throws out of the tie arbitration; the arbitration's
\* winner is one of the tied proposals, and an answer outside 1..(number of
\* tied proposals) selects the first of them.
C12_ArbitrationNeverFails ==
  /\ vThrown.error # "tie arbitration failed"
  /\ (Tallied /\ vTieBreak # NoTie) =>
       /\ Includes(vTieBreak.tied, vTieBreak.decision)
       /\ vWinner = vTieBreak.decision
       /\ vTieBreak.selection \notin 1..Len(vTieBreak.tied) =>
            vTieBreak.decision = vTieBreak.tied[1]

\* C13: a proposal with valid votes and strictly more of them than every
\* other proposal wins, no tieBreak record is made and the vote never is at
\* the arbitration call.
C13_UniqueTopWins ==
  \A id \in Range(vProposals) :
    (/\ VoteCount(vVotes, id) > 0
     /\ \A o \in Range(vProposals) \ {id} :
          VoteCount(vVotes, o) < VoteCount(vVotes, id)) =>
      /\ vpc # "tiebreak"
      /\ Tallied => (vWinner = id /\ vTieBreak = NoTie)

\* 8 proposals, member 1 voted for proposal 2 and every other member for
\* proposal 1: the vote returned proposal 1's author, without evictions
C13_Witness ==
  /\ VoteReturned
  /\ Len(vProposals) = 8 /\ Len(vVotes) = 8
  /\ vVotes[1].proposalMemberId = vProposals[2]
  /\ \A k \in 2..8 : vVotes[k].proposalMemberId = vProposals[1]
  /\ vWinner = vProposals[1]
  /\ vTieBreak = NoTie
  /\ \A k \in 1..Len(vEvictions) : ~vEvictions[k].evicted

\* processEvictions has returned
EvictionsDone == vpc \in {"context", "save", "done"}

\* the successful nominations of the vote that name a member
Named(id) == Cardinality({k \in 1..Len(vNoms) : vNoms[k].nomineeId = id})

EvictedInVote(id) ==
  \E k \in 1..Len(vEvictions) :
    vEvictions[k].memberId = id /\ vEvictions[k].evicted

\* C14: the member being demoted has at least 6 nominations; an eviction
\* entry says evicted exactly when its member has at least 6; and once the
\* evictions are processed a member is evicted if and only if at least 6
\* successful nominations name it, a member with fewer still being in
\* memberIds.
C14_SupermajorityEvicts ==
  /\ vCur.memberId # NoId => Named(vCur.memberId) >= 6
  /\ \A k \in 1..Len(vEvictions) :
       vEvictions[k].evicted <=> Named(vEvictions[k].memberId) >= 6
  /\ EvictionsDone =>
       \A i \in 1..Len(vMembers) :
         /\ EvictedInVote(vMembers[i]) <=> Named(vMembers[i]) >= 6
         /\ Named(vMembers[i]) < 6 => Includes(vState.memberIds, vMembers[i])

\* a vote of 8 members returned in which exactly 6 nominations evicted a
\* member
C14_Witness ==
  /\ VoteReturned
  /\ Len(vMembers) = 8
  /\ \E k \in 1..Len(vEvictions) :
       /\ vEvictions[k].evicted
       /\ Named(vEvictions[k].memberId) = 6
       /\ ~Includes(vState.memberIds, vEvictions[k].memberId)

\* the eviction loop of a practice round is over
PoolEvictionsOver(q) == ppc[q] \in {"replenish", "personas", "done"}

\* the successful nominations of round q that name a candidate
NamedIn(q, id) == Cardinality({k \in 1..Len(pNoms[q]) : pNoms[q][k] = id})

\* the votes cast in round q (abstentions left out), and those for a candidate
CastIn(q) == {k \in 1..Len(pVotes[q]) : pVotes[q][k].proposalMemberId # NoId}
CastFor(q, id) == {k \in CastIn(q) : pVotes[q][k].proposalMemberId = id}

\* the candidate received at least 75% of the votes cast in round q
Protected(q, id) ==
  /\ CastIn(q) # {}
  /\ 4 * Cardinality(CastFor(q, id)) >= 3 * Cardinality(CastIn(q))

\* C15: in a practice round over n candidates every evicted candidate is
\* named by at least ceil(n/2) successful nominations, and once the eviction
\* loop is over a candidate that is not shielded is in the evictions if and
\* only if at least ceil(n/2) successful nominations name it.
C15_SimpleMajorityEvicts ==
  \A q \in Rounds :
    LET n == Len(pCands[q])
    IN /\ \A k \in 1..Len(pEvicted[q]) : 2 * NamedIn(q, pEvicted[q][k]) >= n
       /\ PoolEvictionsOver(q) =>
            \A i \in 1..n :
              ~Protected(q, pCands[q][i]) =>
                (Includes(pEvicted[q], pCands[q][i])
                   <=> 2 * NamedIn(q, pCands[q][i]) >= n)

\* a round over 4 candidates returned in which exactly 2 nominations evicted
\* a candidate
C15_Witness ==
  \E q \in Rounds :
    /\ ppc[q] = "done"
    /\ Len(pCands[q]) = 4
    /\ \E k \in 1..Len(pEvicted[q]) :
         /\ NamedIn(q, pEvicted[q][k]) = 2
         /\ pEvicted[q][k] \in kvEvicted

\* C16: a candidate with at least 75% of the votes cast in a practice round
\* is not in that round's evictions, whatever its nominations and its
\* fitness.
C16_ShieldedNeverEvicted ==
  \A q \in Rounds : \A i \in 1..Len(pCands[q]) :
    Protected(q, pCands[q][i]) => ~Includes(pEvicted[q], pCands[q][i])

\* a round returned in which every candidate nominated a candidate that had
\* received 3 of the 4 votes cast and no fitness before, and it was kept
C16_Witness ==
  \E q \in Rounds :
    /\ ppc[q] = "done"
    /\ \E i \in 1..Len(pCands[q]) :
         LET id == pCands[q][i]
         IN /\ Cardinality(CastIn(q)) = 4 /\ Cardinality(CastFor(q, id)) = 3
            /\ NamedIn(q, id) = Len(pCands[q])
            /\ pRec[q][id].fitness = 3
            /\ ~Includes(pEvicted[q], id)
            /\ id \in DOMAIN kvCandidates

\* C17: the counter stays within 0..9; while a run of eviction-free votes
\* that started with the counter at 0 has fewer than 10 votes, the counter is
\* the number of its votes and targetPoolSize is what it was at the start;
\* with the 10th vote the counter is 0 again and targetPoolSize is one lower,
\* or 3 if it was 3.
C17_TenQuietVotesLowerTarget ==
  /\ kvState.roundsSinceEviction \in 0..9
  /\ streak.votes \in 0..9 =>
       /\ kvState.roundsSinceEviction = streak.votes
       /\ kvState.targetPoolSize = streak.from
  /\ streak.votes = 10 =>
       /\ kvState.roundsSinceEviction = 0
       /\ kvState.targetPoolSize = IF streak.from > 3 THEN streak.from - 1 ELSE 3

\* the 10th eviction-free vote in a row returned and the target is one lower
C17_Witness ==
  /\ VoteReturned
  /\ streak.votes = 10
  /\ kvState.lastRemovalCauses = <<>>
  /\ kvState.targetPoolSize = streak.from - 1
  /\ kvState.roundsSinceEviction = 0

\* C18: the save of a vote in which an eviction occurred writes a
\* targetPoolSize one above the persisted one, or 20 if that was 20, and a
\* counter of 0.
C18_EvictionRaisesTarget ==
  [][(vpc = "save" /\ vpc' = "done" /\ HadEviction) =>
       /\ kvState'.targetPoolSize =
            IF kvState.targetPoolSize < 20 THEN kvState.targetPoolSize + 1 ELSE 20
       /\ kvState'.roundsSinceEviction = 0]_vars

\* a vote with an eviction returned on a council whose counter was above 0
\* and whose target is now 20
C18_Witness ==
  /\ VoteReturned
  /\ HadEviction
  /\ requests >= 2
  /\ streak = [from |-> 20, votes |-> 0]
  /\ kvState.targetPoolSize = 20
  /\ kvState.roundsSinceEviction = 0

PromotionTallied ==
  \/ vpc = "promoteSave"
  \/ vpc = "threw" /\ vThrown = Thrown("TypeError in runPromotionVote")

\* the weighted sum of a candidate: 2 for each ballot of a remaining member,
\* 1 for each ballot of a candidate
BallotSum(id) ==
  LET for == {k \in 1..Len(vCur.ballots) : vCur.ballots[k].candidateId = id}
      byMember == {k \in for : Includes(vState.memberIds, vCur.ballots[k].voterId)}
  IN 2 * Cardinality(byMember) + Cardinality(for \ byMember)

\* the candidates with the highest weighted sum
HighestSum ==
  {c \in Range(vState.candidateIds) :
     \A d \in Range(vState.candidateIds) : BallotSum(d) <= BallotSum(c)}

\* the candidates of the highest persisted fitness among those
HighestFitness ==
  {c \in HighestSum : \A d \in HighestSum : FitnessOf(d) <= FitnessOf(c)}

\* no ballot is cast on the voter's own candidacy
NoOwnBallot ==
  \A k \in 1..Len(vCur.ballots) :
    vCur.ballots[k].candidateId # vCur.ballots[k].voterId

\* C20: when a promotion sub-vote is tallied, the candidate to promote is one
\* with the highest weighted sum (member ballot 2, candidate ballot 1) and,
\* among those, one of the highest persisted fitness.
C20_WeightedPromotion ==
  PromotionTallied => vCur.winner \in HighestFitness

\* the same for the sub-votes in which at least one ballot was counted
PromotionOfBallots ==
  (vpc = "promoteSave" /\ vCur.ballots # <<>>) =>
     /\ vCur.winner \in HighestFitness
     /\ NoOwnBallot

\* two candidates share the highest sum and the one promoted is the one of
\* the higher fitness, which the tally met second
PromotionTieByFitness ==
  /\ vpc = "promoteSave"
  /\ Cardinality(HighestSum) = 2
  /\ \E k \in 1..Len(vCur.ballots) :
       /\ vCur.ballots[k].candidateId = vCur.winner
       /\ \E j \in 1..(k - 1) : /\ vCur.ballots[j].candidateId \in HighestSum
                                /\ vCur.ballots[j].candidateId # vCur.winner

\* C21: every conversion keeps the id and carries the chat history over: a
\* demotion leaves a candidate record under the member's id with at least the
\* member's messages, and a promotion, in a vote or in the recovery check's
\* fill of the council, leaves a member record under the candidate's id with
\* at least the candidate's messages.
C21_IdReusedAcrossBoundary ==
  [][/\ (vpc = "demote" /\ vpc' = "demoteDelete") =>
          /\ vCur.memberId \in DOMAIN kvCandidates'
          /\ kvCandidates'[vCur.memberId].history >= kvMembers[vCur.memberId]
     /\ (vpc = "promoteSave" /\ vpc' = "promoteDelete") =>
          /\ vCur.winner \in DOMAIN kvMembers'
          /\ kvMembers'[vCur.winner] >= kvCandidates[vCur.winner].history
     /\ (rpc = "initialize" /\ rpc' = "initializeDelete") =>
          /\ Head(rSelected) \in DOMAIN kvMembers'
          /\ kvMembers'[Head(rSelected)] >= kvCandidates[Head(rSelected)].history
    ]_vars

\* the same for the conversions inside a vote alone
ConversionsInVoteKeepId ==
  [][/\ (vpc = "demote" /\ vpc' = "demoteDelete") =>
          /\ vCur.memberId \in DOMAIN kvCandidates'
          /\ kvCandidates'[vCur.memberId].history = kvMembers[vCur.memberId] + 1
     /\ (vpc = "promoteSave" /\ vpc' = "promoteDelete") =>
          /\ vCur.winner \in DOMAIN kvMembers'
          /\ kvMembers'[vCur.winner] = kvCandidates[vCur.winner].history
    ]_vars

\* the operation succeeds on some attempt
Succeeds(script) == \E a \in 1..RETRY_ATTEMPTS : script[a] = "ok"

\* the first attempt on which it does
FirstOk(script) ==
  CHOOSE a \in 1..RETRY_ATTEMPTS :
    /\ script[a] = "ok"
    /\ \A b \in 1..(a - 1) : script[b] = "err"

\* C22: when resilientParallel has returned for a batch of n operations, the
\* successes and failures number n together: each operation that succeeds on
\* some attempt has exactly one success and no failure, and each operation
\* that fails on every attempt has no success and exactly one failure, with
\* its label, the error of its last attempt and the attempt count 3.
C22_BatchNeverRejects ==
  bResult.returned =>
    LET n == Len(bScripts)
        won(i) == {k \in DOMAIN bResult.successes : bResult.successes[k] = i}
        failed(i) == {k \in DOMAIN bResult.failures :
                        bResult.failures[k].operation = i}
    IN /\ Len(bResult.successes) + Len(bResult.failures) = n
       /\ \A i \in 1..n :
            IF Succeeds(bScripts[i])
              THEN Cardinality(won(i)) = 1 /\ failed(i) = {}
              ELSE /\ won(i) = {}
                   /\ Cardinality(failed(i)) = 1
                   /\ \A k \in failed(i) :
                        /\ bResult.failures[k].attempts = 3
                        /\ bResult.failures[k].lastError = 3

\* a batch of 3 returned with a success on the first attempt, a success on
\* the last attempt and a failure
C22_Witness ==
  /\ bResult.returned
  /\ Len(bScripts) = 3
  /\ bScripts[1] = NeverOk /\ bScripts[2] = LastOk /\ bScripts[3] = AlwaysOk
  /\ bResult.successes = <<2, 3>>
  /\ Len(bResult.failures) = 1

\* the step model and the function the rounds use return the same operations
ExecutorAgrees ==
  bResult.returned =>
    /\ bResult.successes = ResilientParallel(bScripts).successes
    /\ [k \in DOMAIN bResult.failures |-> bResult.failures[k].operation]
         = ResilientParallel(bScripts).failures

\* C23: an operation is attempted at most 3 times and never after its first
\* success; once it has settled it was attempted up to its first success, or
\* exactly 3 times if every attempt fails, whatever the other operations of
\* the batch do.
C23_AttemptsPerOperation ==
  \A i \in DOMAIN bScripts :
    /\ bAttempts[i] <= 3
    /\ Succeeds(bScripts[i]) => bAttempts[i] <= FirstOk(bScripts[i])
    /\ bStatus[i] = "ok" =>
         Succeeds(bScripts[i]) /\ bAttempts[i] = FirstOk(bScripts[i])
    /\ bStatus[i] = "failed" => ~Succeeds(bScripts[i]) /\ bAttempts[i] = 3
    /\ bStatus[i] = "run" => bAttempts[i] < 3 /\ ~bResult.returned

\* one operation has failed 3 times while another, which would fail if
\* called again, stopped at its first success and a third has not started
C23_Witness ==
  /\ Len(bScripts) = 3
  /\ bStatus[1] = "failed" /\ bAttempts[1] = 3
  /\ bScripts[2] = <<"ok", "err", "err">> /\ bStatus[2] = "ok" /\ bAttempts[2] = 1
  /\ bAttempts[3] = 0

\* the store as it is when the call has changed nothing
Untouched(call) ==
  IF call.op = "saveMember"
    THEN call.id \notin DOMAIN kvMembers /\ ~Includes(kvState.memberIds, call.id)
  ELSE IF call.op = "saveCandidate"
    THEN /\ call.id \notin DOMAIN kvCandidates
         /\ ~Includes(kvState.candidateIds, call.id)
  ELSE IF call.op = "deleteMember"
    THEN call.id \in DOMAIN kvMembers /\ Includes(kvState.memberIds, call.id)
  ELSE /\ call.id \in DOMAIN kvCandidates
       /\ Includes(kvState.candidateIds, call.id)
       /\ call.id \notin kvEvicted

\* the store as it is when the call has taken effect
Applied(call) ==
  IF call.op = "saveMember"
    THEN call.id \in DOMAIN kvMembers /\ Includes(kvState.memberIds, call.id)
  ELSE IF call.op = "saveCandidate"
    THEN /\ call.id \in DOMAIN kvCandidates
         /\ Includes(kvState.candidateIds, call.id)
  ELSE IF call.op = "deleteMember"
    THEN call.id \notin DOMAIN kvMembers /\ ~Includes(kvState.memberIds, call.id)
  ELSE /\ call.id \notin DOMAIN kvCandidates
       /\ ~Includes(kvState.candidateIds, call.id)
       /\ call.id \in kvEvicted <=> call.op = "evictCandidate"

\* C24: a call that threw has failed its conditional commit MAX_RETRIES times
\* and has changed neither its entity's record nor the id-lists, and every
\* call that returned has taken effect.
C24_ExhaustedCallChangesNothing ==
  /\ \A p \in Clients :
       cPc[p] = "threw" =>
         /\ cRetried[p] >= MAX_RETRIES
         /\ Untouched(CurCall(p))
  /\ \A pk \in Calls : CallOk(pk) => Applied(cCalls[pk[1]][pk[2]])

\* an eviction gave up after MAX_RETRIES failed commits while the other
\* client's MAX_RETRIES saves all returned
C24_Witness ==
  /\ cPc[2] = "threw"
  /\ CurCall(2).op = "evictCandidate"
  /\ cRetried[2] = MAX_RETRIES
  /\ cPc[1] = "end"
  /\ Len(cCalls[1]) = MAX_RETRIES
  /\ \A k \in 1..MAX_RETRIES : Applied(cCalls[1][k])

\* the commit of an eviction moves the entity: it is a candidate with a
\* record and in candidateIds, or it is evicted and neither
EvictionCommitAtomic ==
  \/ /\ StoredCandidate \in DOMAIN kvCandidates
     /\ Includes(kvState.candidateIds, StoredCandidate)
     /\ StoredCandidate \notin kvEvicted
  \/ /\ StoredCandidate \notin DOMAIN kvCandidates
     /\ ~Includes(kvState.candidateIds, StoredCandidate)
     /\ (StoredCandidate \in kvEvicted
           <=> \E p \in Clients : /\ cCalls[p] # <<>>
                                  /\ cCalls[p][1].op = "evictCandidate")

\* C25: no entity has a record in both the candidate and the evicted
\* namespace, and an evicted entity is no candidate of the roster.
C25_EvictionIsOneMove ==
  /\ DOMAIN kvCandidates \cap kvEvicted = {}
  /\ Range(kvState.candidateIds) \cap kvEvicted = {}

\* a vote operation is in progress: from the handler's
\* setOperationInProgress(true) to its finally block
VoteInProgress == vpc # "off"

\* C26: no step of a recovery check that reads or writes the roster is
\* taken while a vote operation is in progress.
C26_NoRecoveryDuringVote ==
  [][(rpc' # rpc \/ rState' # rState \/ rSelected' # rSelected)
       => ~VoteInProgress]_vars

\* no recovery check gets past its test of the flag while the one vote is in
\* progress
ChecksBegunDuringVoteSkipped ==
  [][(rpc = "idle" /\ rpc' # "idle") => ~VoteInProgress]_vars

\* C27: a vote request that arrives while memberIds has fewer than 3 entries
\* starts no vote and leaves every stored record as it is.
C27_SmallCouncilRefused ==
  [][(requests' = requests + 1 /\ Len(kvState.memberIds) < 3) =>
       /\ vpc' = "off"
       /\ UNCHANGED kvVars]_vars

\* a request was refused on a council of 2 members: no vote ran, no practice
\* round was launched and the store is as it was
C27_Witness ==
  /\ requests = 1
  /\ Len(kvState.memberIds) = 2
  /\ vpc = "off"
  /\ launched = 0 /\ checks = 0
  /\ kvVersion = 1

\* C28: a step of replenishPool on a pool below its target creates exactly
\* one candidate, saved under a new id, and replenishPool goes on; on a pool
\* at or above its target it creates none and returns.  Hence it creates
\* max(0, targetPoolSize - |candidateIds|) candidates and leaves
\* |candidateIds| = targetPoolSize when it created any.
C28_ReplenishExact ==
  [][\A q \in Rounds :
       (ppc[q] = "replenish" /\ (pState'[q] # pState[q] \/ ppc'[q] # ppc[q])) =>
         LET have == Len(pState[q].candidateIds)
             target == pState[q].targetPoolSize
         IN IF have < target
              THEN /\ ppc'[q] = "replenish"
                   /\ pState'[q].candidateIds =
                        Append(pState[q].candidateIds, nextId)
                   /\ nextId \notin DOMAIN kvCandidates
                   /\ nextId \in DOMAIN kvCandidates'
                   /\ nextId' > nextId
              ELSE /\ ppc'[q] # "replenish"
                   /\ pState'[q].candidateIds = pState[q].candidateIds
                   /\ kvCandidates' = kvCandidates
                   /\ nextId' = nextId
    ]_vars

\* a round whose evictions left the pool one below its target has returned
\* from replenishPool with one new candidate and the pool at its target
C28_Witness ==
  \E q \in Rounds :
    /\ ppc[q] = "personas"
    /\ Len(pEvicted[q]) = 1
    /\ Len(pState[q].candidateIds) = pState[q].targetPoolSize
    /\ Cardinality({id \in Range(pState[q].candidateIds) :
                      id > COUNCIL_SIZE + FirstPool}) = 1

\* what a round returns as `survivors`
Survivors(q) == SelectSeq(pCands[q], LAMBDA id : ~Includes(pEvicted[q], id))

\* C29: a practice round that reads fewer than 2 candidates returns at once:
\* the store is left as it was, no candidate is created, the round has no
\* proposals, votes, nominations, evictions or errors, and every candidate
\* it read is a survivor.
C29_SmallRoundChangesNothing ==
  [][\A q \in Rounds :
       (ppc[q] = "start" /\ ppc'[q] # "start"
        /\ Len(CandidatesByIds(kvState.candidateIds)) < 2) =>
         /\ ppc'[q] = "done"
         /\ UNCHANGED <<kvVars, nextId>>
         /\ pProposals'[q] = <<>> /\ pVotes'[q] = <<>> /\ pNoms'[q] = <<>>
         /\ pEvicted'[q] = <<>> /\ pErrors'[q] = <<>>
         /\ pCands'[q] = CandidatesByIds(kvState.candidateIds)
    ]_vars

\* a round on a pool of one candidate is over, the candidate its survivor and
\* the store as it was at the start
C29_Witness ==
  \E q \in Rounds :
    /\ ppc[q] = "done"
    /\ Len(pCands[q]) = 1
    /\ Survivors(q) = kvState.candidateIds
    /\ kvVersion = 1

\* C30: after a vote that returned, the member records of the store are
\* exactly those of the ids in the saved memberIds.
C30_MemberRecordsMatchRoster ==
  VoteReturned => DOMAIN kvMembers = Range(kvState.memberIds)

\* C31: in every persisted state, also between the two store calls of a
\* demotion or a promotion, each id that has a member or a candidate record
\* is in exactly one of memberIds and candidateIds.
C31_MoveAtomic ==
  \A id \in DOMAIN kvMembers \cup DOMAIN kvCandidates :
    Includes(kvState.memberIds, id) # Includes(kvState.candidateIds, id)

\* C32: every vote recorded in the council's selection round names the entry
\* at the voter's number in the proposals without the voter's own, which is
\* the entry the practice round's decoding gives for the same proposals,
\* voter and number.
C32_SameDecoding ==
  \A k \in 1..Len(vVotes) :
    vVotes[k].ballot # Null =>
      vVotes[k].proposalMemberId =
        PracticeVote(vVotes[k].voterId, vVotes[k].ballot, vProposals)

\* the practice round's recorded votes are the decoding into the filtered list
PracticeDecodesFiltered ==
  \A q \in Rounds : \A k \in 1..Len(pVotes[q]) :
    pVotes[q][k].ballot # Null =>
      pVotes[q][k].proposalMemberId =
        PracticeVote(pVotes[q][k].voterId, pVotes[q][k].ballot, pProposals[q])

\* C33: when the votes, practice rounds and recovery checks made so far are
\* over, the saved memberIds has at most COUNCIL_SIZE entries.
C33_CouncilFixedSize ==
  NothingInProgress => Len(kvState.memberIds) <= COUNCIL_SIZE

\* the operation of every member in a round's batch has settled: it returned
\* (its result is in `results`) or exhausted its retries (its error is
\* recorded for the round)
RoundSettled(round, results) ==
  \A i \in 1..Len(vMembers) :
    \/ vMembers[i] \in results
    \/ \E k \in 1..Len(vErrors) :
         vErrors[k] = [round |-> round, who |-> vMembers[i]]

SelectionBegun ==
  vpc \in {"select", "tiebreak", "nominate", "evict", "demote", "demoteDelete",
           "cause", "promotion", "promoteSave", "promoteDelete", "context",
           "save", "done"}

NominationBegun == SelectionBegun /\ vpc \notin {"select", "tiebreak"}

\* C34: while a vote is at its selection round or beyond, every proposal
\* operation has settled; while it is at its nomination round or beyond,
\* every selection operation has settled and the winner is decided.
C34_RoundsSequential ==
  /\ SelectionBegun => RoundSettled("proposal", Range(vProposals))
  /\ NominationBegun =>
       /\ RoundSettled("selection", {vVotes[k].voterId : k \in 1..Len(vVotes)})
       /\ vWinner \in Range(vProposals)

\* the nomination round is reached after a proposal operation and a selection
\* operation exhausted their retries
C34_Witness ==
  /\ vpc = "nominate"
  /\ \E k \in 1..Len(vErrors) : vErrors[k].round = "proposal"
  /\ \E k \in 1..Len(vErrors) : vErrors[k].round = "selection"
  /\ Len(vVotes) > 0

\* resilientParallel has returned only when no operation is still running
BatchReturnsAfterAll ==
  bResult.returned => \A i \in DOMAIN bScripts : bStatus[i] # "run"

\* the council is full and the pool at its target in the saved state, each
\* id with its record
Restored ==
  /\ Len(kvState.memberIds) = COUNCIL_SIZE
  /\ Range(kvState.memberIds) = DOMAIN kvMembers
  /\ Len(kvState.candidateIds) = kvState.targetPoolSize
  /\ Range(kvState.candidateIds) = DOMAIN kvCandidates

CouncilFull == Cardinality(DOMAIN kvMembers) = COUNCIL_SIZE

\* C35: with no vote requested and every call of a check returning, repeated
\* recovery checks on a council short of members lead to a full council, and
\* a full council leads to a full council with the pool at targetPoolSize,
\* which then stays; a check creates at most one candidate: a step that
\* creates candidates creates one and is the check's last before its save.
C35_RecoveryRestores ==
  /\ [][DOMAIN kvCandidates' \ DOMAIN kvCandidates # {} =>
          /\ Cardinality(DOMAIN kvCandidates' \ DOMAIN kvCandidates) = 1
          /\ rpc \in {"create", "replenish"}
          /\ rpc' = "save"]_vars
  /\ [][rpc = "save" => rpc' = "idle"]_vars
  /\ (~CouncilFull) ~> CouncilFull
  /\ CouncilFull ~> Restored
  /\ <>[]Restored

\* a council that started with no member and no candidate is full, its pool
\* at the target
C35_Witness ==
  /\ Restored
  /\ rpc = "idle"
  /\ Range(kvState.memberIds) \cap (1..COUNCIL_SIZE) = {}
  /\ nextId > 2 * COUNCIL_SIZE + 2 * FirstPool

\* the calls of runRecoveryLoop that are running a check or sleeping behind
\* a pending timer
ActiveLoops == {l \in Loops : lAt[l] \in {"check", "sleep"}}

\* C36: at most one recovery loop is active, whatever the calls of
\* startPeriodicRecovery and stopPeriodicRecovery.
C36_OneRecoveryLoop == Cardinality(ActiveLoops) <= 1

\* a check begins only while the flag is on: none after a stop until the
\* next start
NoCheckBeginsWhileStopped ==
  [][\A l \in Loops : lTurn'[l] # lTurn[l] => isRecoveryRunning']_vars

\* two loops started by two starts with a stop between them go on together
TwoLoopsSleep ==
  ~(isRecoveryRunning /\ \E l, k \in Loops : l # k /\ lAt[l] = "sleep" /\ lAt[k] = "sleep")

\* the entries of `evictions` with evicted = true
EvictedEntries == {k \in 1..Len(vEvictions) : vEvictions[k].evicted}

\* the member whose eviction is under way: demoted or being replaced, its
\* entry not yet pushed
BeingEvicted ==
  IF vpc \in {"demote", "demoteDelete", "cause", "promotion", "promoteSave",
              "promoteDelete"}
    THEN {vCur.memberId} ELSE {}

\* C37: a vote of a council of fewer than twice SUPERMAJORITY_THRESHOLD
\* members evicts at most one member: the evictions recorded and the one
\* under way are at most one.
C37_OneEvictionPerVote ==
  Len(vMembers) < 2 * SUPERMAJORITY_THRESHOLD =>
    Cardinality(EvictedEntries) + Cardinality(BeingEvicted) <= 1

\* a vote in which every member nominated returned with results for two
\* nominees, or with an eviction
C37_Witness ==
  /\ VoteReturned
  /\ Len(vNoms) = COUNCIL_SIZE
  /\ Cardinality(EvictedEntries) = 1
  /\ Len(vMembers) = COUNCIL_SIZE

\* C38: no eviction entry names the evicted member as its own replacement.
C38_ReplacementIsAnother ==
  \A k \in 1..Len(vEvictions) :
    vEvictions[k].evicted => vEvictions[k].replacement # vEvictions[k].memberId

\* the votes of round q that name candidate id
Received(q, id) ==
  Cardinality({k \in 1..Len(pVotes[q]) : pVotes[q][k].proposalMemberId = id})

\* C39: the votes of a round raise the fitness of each of its candidates, as
\* read at the round's start, by the number of votes that name it, and the
\* round's saveCandidates persists that fitness; when a round that ran alone
\* is over, the persisted fitness of each of its candidates still in the
\* pool is the fitness before the round plus the votes it received.
C39_FitnessIsVotesReceived ==
  /\ [][\A q \in Rounds :
          /\ (ppc[q] = "vote" /\ ppc'[q] = "fitness") =>
               \A id \in Range(pCands[q]) :
                 pRec'[q][id].fitness = pRec[q][id].fitness + Received(q, id)'
          /\ (ppc[q] = "fitness" /\ ppc'[q] = "nominate") =>
               \A id \in Range(pCands[q]) :
                 /\ kvCandidates'[id].fitness = pRec[q][id].fitness
                 /\ Received(q, id)' = Received(q, id)
       ]_vars
  /\ [](\A q \in Rounds :
          (broad /\ ppc[q] = "done") =>
            \A id \in Range(pCands[q]) \cap DOMAIN kvCandidates :
              kvCandidates[id].fitness = (id - COUNCIL_SIZE - 1) + Received(q, id))

\* a round that ran alone is over, one of its voters abstained, and a
\* surviving candidate's persisted fitness is above what it was by the votes
\* it received
C39_Witness ==
  \E q \in Rounds :
    /\ broad /\ ppc[q] = "done"
    /\ \E id \in Range(pCands[q]) \cap DOMAIN kvCandidates :
         /\ Received(q, id) > 0
         /\ kvCandidates[id].fitness = (id - COUNCIL_SIZE - 1) + Received(q, id)
    /\ \E k \in 1..Len(pVotes[q]) : pVotes[q][k].proposalMemberId = NoId

\* `after` is `before` with `cause` put first and the oldest entry beyond 10
\* dropped
CausePushed(before, after, cause) ==
  /\ Len(after) = Min(Len(before) + 1, 10)
  /\ after[1] = cause
  /\ \A k \in 2..Len(after) : after[k] = before[k - 1]

\* C40: the persisted lastRemovalCauses never has more than 10 entries, and
\* the eviction of a member in a vote or of a candidate in a practice round
\* puts its cause first in the list of the caller's state, followed by the
\* entries it had, in their order, the oldest beyond 10 dropped.
C40_CausesRing ==
  /\ [](Len(kvState.lastRemovalCauses) <= 10)
  /\ [][/\ vState'.lastRemovalCauses # vState.lastRemovalCauses /\ vpc = "cause" =>
            CausePushed(vState.lastRemovalCauses, vState'.lastRemovalCauses,
                        vCur.memberId)
        /\ \A q \in Rounds :
             (pState'[q].lastRemovalCauses # pState[q].lastRemovalCauses
              /\ ppc[q] = "evict") =>
               CausePushed(pState[q].lastRemovalCauses,
                           pState'[q].lastRemovalCauses, Head(pQueue[q]))
       ]_vars

\* an eviction on a list of ten causes was saved: the new cause is first, the
\* nine newest of the old follow, the oldest is gone
C40_Witness ==
  /\ Len(kvState.lastRemovalCauses) = 10
  /\ kvState.lastRemovalCauses[1] < 100
  /\ kvState.lastRemovalCauses[2] = OldCauses(10)[1]
  /\ kvState.lastRemovalCauses[10] = OldCauses(10)[9]

====
